---- MODULE Spec2Model ----
(***************************************************************************)
(* A model of watchflow's execution core: the CommandExecutor              *)
(* (core/executor.py), the orchestrating WatchFlowEngine (core/engine.py)  *)
(* and the pure helpers they call.                                         *)
(*                                                                         *)
(* Strings that the code inspects (names, file names, glob patterns) are   *)
(* sequences of chunks, so that lower-casing, substring tests and glob     *)
(* matching are computed and not looked up.                                *)
(***************************************************************************)
EXTENDS Integers, Sequences, FiniteSets, TLC

(***************************************************************************)
(* Bounds of the model.                                                    *)
(***************************************************************************)
MaxParallel == 2
MaxRetries == 2
MaxCalls == 2
MaxReloads == 1
MaxEdits == 2
MaxQueue == 1
MaxPending == 3
MaxSignals == 1
MaxDelayAttempt == 25
MaxStarts == 1
MaxStopCalls == 3

(***************************************************************************)
(* Program constants.                                                      *)
(***************************************************************************)
\* Optional[int] timeout = None (config/models.py); a timeout is >= 1.
NoTimeout == 0
\* the cap of the exponential back-off
MaxDelay == 60
\* the delay of the fixed strategy
FixedDelay == 1
\* return_code of a result that stems from no process exit
NoReturnCode == -1

\* Optional[str] = None; `if command.skip_until_exists:` treats "" alike
NoPath == <<>>

FIXED == "fixed"
EXPONENTIAL == "exponential"
RetryStrategy == {FIXED, EXPONENTIAL}

(***************************************************************************)
(* Pure helpers.                                                           *)
(***************************************************************************)
Min(a, b) == IF a < b THEN a ELSE b

\* CommandExecutor._calculate_retry_delay with the cap missing
DelayUncapped(attempt, strategy) ==
    IF strategy = EXPONENTIAL THEN 2 ^ attempt ELSE FixedDelay

\* CommandExecutor._calculate_retry_delay
_calculate_retry_delay(attempt, strategy) ==
    IF strategy = EXPONENTIAL
    THEN Min(2 ^ attempt, MaxDelay)
    ELSE FixedDelay

(***************************************************************************)
(* Text.  A string is a sequence of chunks.                                *)
(***************************************************************************)
\* `sub in s`
Contains(s, sub) ==
    \E k \in 0..(Len(s) - Len(sub)) : SubSeq(s, k + 1, k + Len(sub)) = sub

\* str.lower(), chunk by chunk
LowerChunk(c) ==
    CASE c = "Test" -> "test"
      [] c = "TEST" -> "test"
      [] c = "Unit" -> "unit"
      [] c = "Command " -> "command "
      [] c = "Command path " -> "command path "
      [] c = " in PATH: " -> " in path: "
      [] OTHER -> c

lower(s) == [k \in 1..Len(s) |-> LowerChunk(s[k])]

\* fnmatch.fnmatch / the match of one path component by Path.rglob:
\* "*" matches any run of chunks, any other chunk matches itself
RECURSIVE fnmatch(_, _)
fnmatch(name, pattern) ==
    IF pattern = <<>> THEN name = <<>>
    ELSE IF Head(pattern) = "*"
         THEN \/ fnmatch(name, Tail(pattern))
              \/ (name # <<>> /\ fnmatch(Tail(name), pattern))
         ELSE /\ name # <<>>
              /\ Head(name) = Head(pattern)
              /\ fnmatch(Tail(name), Tail(pattern))

\* \w+ of TemplateEngine.VARIABLE_PATTERN
IsWord(c) == c \in {"path", "paths", "event", "timestamp", "watcher", "tool"}

\* a placeholder with every name kept: one absent from the context is dropped
RECURSIVE SubstituteDropAbsent(_, _)
SubstituteDropAbsent(template, variables) ==
    IF template = <<>> THEN <<>>
    ELSE IF /\ Len(template) >= 3
            /\ template[1] = "{{"
            /\ IsWord(template[2])
            /\ template[3] = "}}"
         THEN (IF template[2] \in DOMAIN variables
               THEN variables[template[2]]
               ELSE <<>>)
              \o SubstituteDropAbsent(SubSeq(template, 4, Len(template)),
                                      variables)
         ELSE <<Head(template)>> \o SubstituteDropAbsent(Tail(template), variables)

\* TemplateEngine.substitute: every {{name}} with name in the context is
\* replaced by its value, any other is left as it stands; one pass, the
\* values are not scanned again
RECURSIVE substitute(_, _)
substitute(template, variables) ==
    IF template = <<>> THEN <<>>
    ELSE IF /\ Len(template) >= 3
            /\ template[1] = "{{"
            /\ IsWord(template[2])
            /\ template[3] = "}}"
         THEN (IF template[2] \in DOMAIN variables
               THEN variables[template[2]]
               ELSE SubSeq(template, 1, 3))
              \o substitute(SubSeq(template, 4, Len(template)), variables)
         ELSE <<Head(template)>> \o substitute(Tail(template), variables)

\* TemplateEngine.substitute_list
substitute_list(templates, variables) ==
    [k \in 1..Len(templates) |-> substitute(templates[k], variables)]

(***************************************************************************)
(* The file system under the project root: the set of existing paths, a    *)
(* path being the sequence of its components.                              *)
(***************************************************************************)
OutTxt == <<"out", ".txt">>
TestsDir == <<"tests">>
PkgDir == <<"pkg">>
TestCorePy == <<"test_", "core", ".py">>

FsUniverse == { <<OutTxt>>, <<TestsDir>>, <<PkgDir, TestCorePy>> }

\* a file name of 300 characters, longer than the file system allows
TooLong == <<"a", "...", "a">>

\* Path.exists() on the path raises instead of answering: os.stat fails with
\* an error that pathlib does not take for "absent" (ENAMETOOLONG)
StatRaises(path) == path = TooLong

Range(s) == { s[k] : k \in 1..Len(s) }

IsPrefix(p, q) == Len(p) <= Len(q) /\ SubSeq(q, 1, Len(p)) = p

\* Path.exists(): the path or something below it is there
exists(files, path) == \E q \in files : IsPrefix(path, q)

\* every entry (file or directory) that the files imply
Entries(files) ==
    UNION { { SubSeq(q, 1, n) : n \in 1..Len(q) } : q \in files }

\* Path.rglob(pattern): every entry at any depth whose name matches
rglob(files, pattern) ==
    { p \in Entries(files) : fnmatch(p[Len(p)], pattern) }

\* the executables that shutil.which resolves
PathExecutables == { <<"echo">>, <<"pytest">> }

\* find_command: shutil.which
find_command(cmd) == cmd \in PathExecutables

NoError == <<>>

\* validate_command: (is_valid, error_message)
validate_command(files, cmd_list) ==
    IF cmd_list = <<>>
    THEN [ok |-> FALSE, error |-> <<"Empty command">>]
    ELSE LET cmd == cmd_list[1] IN
         IF Contains(cmd, <<"/">>) \/ Contains(cmd, <<"\\">>)
         THEN IF cmd \in files
              THEN [ok |-> TRUE, error |-> NoError]
              ELSE [ok |-> FALSE,
                    error |-> <<"Command path ", "not found", ": ">> \o cmd]
         ELSE IF find_command(cmd)
              THEN [ok |-> TRUE, error |-> NoError]
              ELSE [ok |-> FALSE,
                    error |-> <<"Command ", "not found", " in PATH: ">> \o cmd]

(***************************************************************************)
(* CommandExecutor: the skip conditions.                                   *)
(***************************************************************************)
test_dirs == { <<"tests">>, <<"test">>, <<"spec">>, <<"__tests__">> }

test_patterns ==
    { <<"*", "_test", ".py">>, <<"test_", "*", ".py">>, <<"*", "_test", ".go">>,
      <<"*", "_spec", ".rb">>, <<"*", ".test", ".js">> }

\* CommandExecutor._has_tests
_has_tests(files) ==
    \/ \E d \in test_dirs : exists(files, <<d>>)
    \/ \E pattern \in test_patterns : rglob(files, pattern) # {}

NoReason == <<>>

\* the skip conditions with the test heuristic evaluated first
SkipTestsFirst(command, files) ==
    IF Contains(lower(command.name), <<"test">>) /\ ~_has_tests(files)
    THEN <<"no test files or directories found">>
    ELSE IF /\ command.skip_until_exists # NoPath
            /\ ~exists(files, <<command.skip_until_exists>>)
         THEN <<"waiting for ">> \o command.skip_until_exists
         ELSE NoReason

\* skip_until_exists taken alone for the condition, the path not looked at
SkipWhenSet(command, files) ==
    IF command.skip_until_exists # NoPath
    THEN <<"waiting for ">> \o command.skip_until_exists
    ELSE IF Contains(lower(command.name), <<"test">>) /\ ~_has_tests(files)
         THEN <<"no test files or directories found">>
         ELSE NoReason

\* the skip conditions with the name compared case-sensitively
SkipCaseSensitive(command, files) ==
    IF /\ command.skip_until_exists # NoPath
       /\ ~exists(files, <<command.skip_until_exists>>)
    THEN <<"waiting for ">> \o command.skip_until_exists
    ELSE IF Contains(command.name, <<"test">>) /\ ~_has_tests(files)
         THEN <<"no test files or directories found">>
         ELSE NoReason

\* CommandExecutor._check_skip_conditions: the skip reason, or none
_check_skip_conditions(command, files) ==
    IF /\ command.skip_until_exists # NoPath
       /\ ~exists(files, <<command.skip_until_exists>>)
    THEN <<"waiting for ">> \o command.skip_until_exists
    ELSE IF Contains(lower(command.name), <<"test">>) /\ ~_has_tests(files)
         THEN <<"no test files or directories found">>
         ELSE NoReason

(***************************************************************************)
(* Commands (config/models.py: Command) and the inputs of the model.       *)
(***************************************************************************)
Command(name, cmd, timeout, retries, retry_strategy, skip_until_exists) ==
    [name |-> name, cmd |-> cmd, timeout |-> timeout, retries |-> retries,
     retry_strategy |-> retry_strategy,
     skip_until_exists |-> skip_until_exists]

NameBuild == <<"build">>
NameRunTests == <<"Run-", "Test", "s">>

EchoPath == << <<"echo">>, <<"{{", "path", "}}">> >>
Missing == << <<"nosuchcmd">>, <<"{{", "tool", "}}">> >>

SomeTimeout == 5

AllCommands ==
    [name : {NameBuild, NameRunTests},
     cmd : {EchoPath, Missing},
     timeout : {NoTimeout, SomeTimeout},
     retries : 0..MaxRetries,
     retry_strategy : RetryStrategy,
     skip_until_exists : {NoPath, OutTxt}]

B2N(b) == IF b THEN 1 ELSE 0

\* how many fields of a command differ from the defaults of the Command model
NonDefault(c) ==
    B2N(c.name # NameBuild) + B2N(c.cmd # EchoPath) + B2N(c.timeout # NoTimeout)
    + B2N(c.retries # 0) + B2N(c.retry_strategy # FIXED)
    + B2N(c.skip_until_exists # NoPath)

\* the commands that are run alone: at most two fields off their defaults,
\* and one on which both skip conditions and the validation can bear
SkippedTwiceUnresolved ==
    Command(NameRunTests, Missing, NoTimeout, 0, FIXED, OutTxt)

Catalogue ==
    { c \in AllCommands : NonDefault(c) <= 2 } \cup {SkippedTwiceUnresolved}

\* the commands that are run as a group
GroupPool ==
    << Command(<<"cmd", "1">>, EchoPath, NoTimeout, 1, FIXED, NoPath),
       Command(<<"cmd", "2">>, EchoPath, SomeTimeout, 0, FIXED, NoPath),
       Command(<<"cmd", "3">>, Missing, NoTimeout, 0, FIXED, NoPath),
       Command(<<"cmd", "4">>, EchoPath, NoTimeout, 0, FIXED, OutTxt) >>

MaxCmds == 3

Window(s, n) ==
    [k \in 1..n |-> GroupPool[((s + k - 2) % Len(GroupPool)) + 1]]

Singles == { <<c>> : c \in Catalogue }

Groups == { Window(s, n) : s \in 1..Len(GroupPool), n \in 2..MaxCmds }

\* the exit codes of a process
ExitCodes == {0, 1, 2}

\* the exit codes of the commands that the engine's configurations name
EngineExitCodes == {0, 1}

\* the context of a direct call
HarnessVars == [path |-> <<"main", ".py">>]

(***************************************************************************)
(* State.                                                                  *)
(***************************************************************************)
VARIABLES
    sys_platform,   \* sys.platform
    fs,             \* the paths that exist under the project root
    executors,      \* CommandExecutor objects: max_parallel, validate_commands, semaphore value
    calls,          \* execute_commands invocations
    tasks,          \* execute_command invocations, per call
    harness,        \* the direct caller of the executor: its group and mode
    engine,         \* WatchFlowEngine: running, loop, config, executor, _config_hash, start()'s position
    disk,           \* the configuration file
    watcher,        \* FileWatcher: the registered groups, the observer
    loopq,          \* what other threads and handlers scheduled on the event loop, in order
    ui,             \* what the step that led here gave the UIRenderer, in order
    d_attempt, d_strategy, d_wait,  \* one evaluation of _calculate_retry_delay
    t_templates, t_variables, t_result, \* one call of TemplateEngine.substitute_list
    clock,          \* time.time(), in milliseconds
    contents,       \* what the watched files hold
    observer,       \* FileWatcher.observer: the watches scheduled, the warnings logged
    handler,        \* the WatcherEventHandler of one watch group
    w_log           \* the raw events so far and what became of each

execVars == <<sys_platform, fs, executors, calls, tasks, harness>>
engineState == <<engine, disk, watcher, loopq>>
engineVars == <<engineState, ui>>
delayVars == <<d_attempt, d_strategy, d_wait>>
\* what neither the executor nor the engine touches
templateVars == <<t_templates, t_variables, t_result>>
detectorVars == <<clock, contents, observer, handler, w_log>>
otherVars == <<delayVars, templateVars, detectorVars>>
vars == <<execVars, engineVars, delayVars, templateVars, detectorVars>>

\* every reload makes a CommandExecutor, every edit can lead to a reload
ExecIds == 0..(IF MaxEdits > MaxReloads THEN MaxEdits ELSE MaxReloads)
CallIds == 1..MaxCalls

ExecutionResult(command_name, success, return_code, stdout, stderr, skipped, skip_reason) ==
    [command_name |-> command_name, success |-> success,
     return_code |-> return_code, stdout |-> stdout, stderr |-> stderr,
     skipped |-> skipped, skip_reason |-> skip_reason]

NullResult == ExecutionResult(<<>>, FALSE, 0, <<>>, <<>>, FALSE, NoReason)

NewTask ==
    [pc |-> "idle", attempt |-> 0, spawns |-> 0, exits |-> <<>>,
     proc |-> "none", wait_time |-> 0, substituted |-> FALSE,
     validated |-> FALSE, cmd_list |-> <<>>, result |-> NullResult]

NoCall ==
    [state |-> "unused", owner |-> "nobody", executor |-> 0, commands |-> <<>>,
     parallel |-> FALSE, template_vars |-> HarnessVars, results |-> <<>>,
     finished |-> <<>>]

\* a step that gives the UIRenderer nothing
Silent == ui' = <<>>

NoExecutor == [created |-> FALSE, max_parallel |-> 0,
               validate_commands |-> FALSE, value |-> 0]

\* CommandExecutor.__init__
NewExecutor(max_parallel, validate_commands) ==
    [created |-> TRUE, max_parallel |-> max_parallel,
     validate_commands |-> validate_commands, value |-> max_parallel]

(***************************************************************************)
(* WatchFlowEngine: configuration, lifecycle, reporting.                   *)
(***************************************************************************)
Watcher(name, parallel, commands) ==
    [name |-> name, parallel |-> parallel, commands |-> commands]

Config(watchers, fail_fast, max_parallel_commands) ==
    [watchers |-> watchers,
     global_config |-> [fail_fast |-> fail_fast,
                        max_parallel_commands |-> max_parallel_commands]]

\* a command with every option at its default
Plain(name) == Command(name, EchoPath, NoTimeout, 0, FIXED, NoPath)

\* the configuration the engine is constructed with
ConfigA ==
    Config(<< Watcher(<<"py">>, FALSE, <<Plain(<<"lint">>), Plain(<<"unit">>)>>),
              Watcher(<<"docs">>, TRUE, <<Plain(<<"doc">>), GroupPool[4]>>) >>,
           FALSE, 2)

\* an edited configuration: fail-fast, a lower limit, one group less
ConfigB ==
    Config(<< Watcher(<<"py">>, FALSE, <<Plain(<<"unit">>), GroupPool[3]>>) >>,
           TRUE, 1)

\* fail-fast with a sequential and a parallel group of plain commands
ConfigC ==
    Config(<< Watcher(<<"py">>, FALSE, <<Plain(<<"lint">>), Plain(<<"unit">>)>>),
              Watcher(<<"docs">>, TRUE, <<Plain(<<"doc">>), Plain(<<"link">>)>>) >>,
           TRUE, 2)

\* the contents the configuration file can have; "bad" does not load,
\* "gone" cannot be read
DiskContents == {"A", "B", "bad", "gone"}

NoHash == "none"

\* compute_file_hash(config_path): the digest of the content, None if the
\* file cannot be read
compute_file_hash(content) == IF content = "gone" THEN NoHash ELSE content

\* ConfigValidator.load_config: the configuration, or an exception
load_config(content) ==
    CASE content = "A" -> [ok |-> TRUE, config |-> ConfigA]
      [] content = "B" -> [ok |-> TRUE, config |-> ConfigB]
      [] OTHER -> [ok |-> FALSE, config |-> ConfigA]

Notification(kind, name) == [kind |-> kind, name |-> name]

NoItem ==
    [kind |-> "none", event_type |-> "", paths |-> <<>>, watcher_name |-> <<>>,
     watcher_config |-> Watcher(<<>>, FALSE, <<>>),
     template_vars |-> HarnessVars]

\* WatcherEventHandler._async_callback scheduled by the watch thread
CallbackItem(event_type, paths, watcher_name) ==
    [NoItem EXCEPT !.kind = "callback", !.event_type = event_type,
                   !.paths = paths, !.watcher_name = watcher_name]

\* _execute_watcher_commands scheduled by _on_file_event
DispatchItem(watcher_config, template_vars) ==
    [NoItem EXCEPT !.kind = "dispatch", !.watcher_config = watcher_config,
                   !.template_vars = template_vars]

\* stop() scheduled by the signal handler
StopItem == [NoItem EXCEPT !.kind = "stop"]

\* TemplateEngine.create_context
create_context(path, paths, event, watcher_name) ==
    [path |-> path, paths |-> paths, event |-> <<event>>,
     timestamp |-> <<"now">>, watcher |-> watcher_name]

\* besides the fields of WatchFlowEngine: main, the position of start();
\* how many signals came, how often start() and stop() were called; at_stop,
\* the dispatched groups that were executing when stop() took effect and
\* have not reported since; dropped, why _on_file_event last returned
\* without dispatching
NoEngine ==
    [running |-> FALSE, loop |-> FALSE, config |-> ConfigA, executor |-> 0,
     config_hash |-> NoHash, enable_hot_reload |-> FALSE, main |-> "absent",
     signals |-> 0, starts |-> 0, stop_calls |-> 0, at_stop |-> {},
     dropped |-> "nothing"]

\* FileWatcher: handlers, the groups in the order add_watcher was called
NoWatcher == [handlers |-> <<>>, state |-> "new", stops |-> 0]

EngineIdle ==
    /\ engine = NoEngine
    /\ disk = [content |-> "gone", edits |-> 0]
    /\ watcher = NoWatcher
    /\ loopq = <<>>
    /\ ui = <<>>

\* the dispatched groups whose execute_commands has not returned
InFlight ==
    { c \in CallIds : calls[c].owner = "engine" /\ calls[c].state = "active" }

\* stop() without the check of self.running
StopUnguarded(eng, w) ==
    [engine |-> [eng EXCEPT !.running = FALSE,
                            !.stop_calls = Min(@ + 1, MaxStopCalls),
                            !.at_stop = InFlight],
     watcher |-> [w EXCEPT !.state = "stopped", !.stops = @ + 1]]

\* WatchFlowEngine.stop, lines 122-136
StopEffect(eng, w) ==
    LET called == [eng EXCEPT !.stop_calls = Min(@ + 1, MaxStopCalls)] IN
    IF ~eng.running
    THEN [engine |-> called, watcher |-> w]
    ELSE [engine |-> [called EXCEPT !.running = FALSE, !.at_stop = InFlight],
          watcher |-> [w EXCEPT !.state = "stopped", !.stops = @ + 1]]

\* _print_execution_result: the notification a result gives
ResultNote(result) ==
    Notification(IF result.skipped THEN "command_skip"
                 ELSE IF result.success THEN "command_success"
                 ELSE "command_error",
                 result.command_name)

\* lines 211-221: how many results the loop gets to: all, or with fail_fast
\* up to the first that is no success
Reported(results, fail_fast) ==
    LET failed == { k \in 1..Len(results) : ~results[k].success } IN
    IF fail_fast /\ failed # {}
    THEN CHOOSE k \in failed : \A j \in failed : k <= j
    ELSE Len(results)

\* a failed result stops the engine whatever fail_fast says
TriggeredByAnyFailure(results, fail_fast) ==
    \E k \in 1..Len(results) : ~results[k].success

\* line 215: the loop comes to a result that makes it stop the engine
Triggered(results, fail_fast) ==
    /\ fail_fast
    /\ \E k \in 1..Len(results) : ~results[k].success

\* execute_commands returned `results` to its awaiter: for a call of the
\* engine, lines 210-221 of _execute_watcher_commands run
Returned(c, results) ==
    IF calls[c].owner # "engine"
    THEN Silent /\ UNCHANGED engineState
    ELSE LET n == Reported(results, engine.config.global_config.fail_fast)
             triggered ==
                 Triggered(results, engine.config.global_config.fail_fast)
             stopped == StopEffect(engine, watcher)
         IN  /\ ui' = [k \in 1..n |-> ResultNote(results[k])]
                      \o (IF triggered
                          THEN << Notification("fail_fast",
                                               results[n].command_name) >>
                          ELSE <<>>)
             /\ engine' = [(IF triggered THEN stopped.engine ELSE engine)
                              EXCEPT !.at_stop = @ \ {c}]
             /\ watcher' = IF triggered THEN stopped.watcher ELSE watcher
             /\ UNCHANGED <<disk, loopq>>

(***************************************************************************)
(* CommandExecutor.execute_command.                                        *)
(*                                                                         *)
(* A task is one invocation.  Its pc names the await it is suspended at:   *)
(*   waiting   async with self.semaphore                                   *)
(*   spawning  await create_subprocess_exec(...)                           *)
(*   running   await wait_for(process.communicate(), timeout)              *)
(*   reaping   await process.wait(), after process.kill()                  *)
(*   sleeping  await asyncio.sleep(wait_time)                              *)
(* It holds a slot of the semaphore from spawning to sleeping.             *)
(***************************************************************************)
Holding == {"spawning", "running", "reaping", "sleeping"}

\* line 368: the evaluation of skip_until_exists raises
SkipRaises(command) ==
    command.skip_until_exists # NoPath /\ StatRaises(command.skip_until_exists)

\* the code between the semaphore and the retry loop, with the executable
\* validated before the skip conditions are looked at
PreludeValidateFirst(executor, command, variables, files) ==
    LET cmd_list == substitute_list(command.cmd, variables)
        validating == executor.validate_commands /\ sys_platform # "win32"
        v == validate_command(files, cmd_list)
        reason == _check_skip_conditions(command, files)
    IN  IF validating /\ ~v.ok
        THEN [outcome |-> "invalid", reason |-> NoReason, error |-> v.error,
              cmd_list |-> cmd_list, substituted |-> TRUE, validated |-> TRUE]
        ELSE IF reason # NoReason
             THEN [outcome |-> "skipped", reason |-> reason, error |-> NoError,
                   cmd_list |-> cmd_list, substituted |-> TRUE,
                   validated |-> validating]
             ELSE [outcome |-> "ready", reason |-> NoReason, error |-> NoError,
                   cmd_list |-> cmd_list, substituted |-> TRUE,
                   validated |-> validating]

\* the code between the semaphore and the retry loop: skip conditions,
\* template substitution, existence validation
Prelude(executor, command, variables, files) ==
    LET reason == _check_skip_conditions(command, files) IN
    IF SkipRaises(command)
    THEN [outcome |-> "raised", reason |-> NoReason, error |-> NoError,
          cmd_list |-> <<>>, substituted |-> FALSE, validated |-> FALSE]
    ELSE IF reason # NoReason
    THEN [outcome |-> "skipped", reason |-> reason, error |-> NoError,
          cmd_list |-> <<>>, substituted |-> FALSE, validated |-> FALSE]
    ELSE LET cmd_list == substitute_list(command.cmd, variables)
             validating ==
                 executor.validate_commands /\ sys_platform # "win32"
             v == validate_command(files, cmd_list)
         IN  IF validating /\ ~v.ok
             THEN [outcome |-> "invalid", reason |-> NoReason,
                   error |-> v.error, cmd_list |-> cmd_list,
                   substituted |-> TRUE, validated |-> TRUE]
             ELSE [outcome |-> "ready", reason |-> NoReason,
                   error |-> NoError, cmd_list |-> cmd_list,
                   substituted |-> TRUE, validated |-> validating]

\* the invocations of execute_command that go on: those of a call that is
\* awaited, and those that gather started before it raised
IsTask(c, i) ==
    /\ \/ calls[c].state = "active"
       \/ calls[c].state = "raised" /\ calls[c].parallel
    /\ i \in 1..Len(tasks[c])

CommandOf(c, i) == calls[c].commands[i]
ExecutorOf(c) == executors[calls[c].executor]

\* the streams captured from the process of one attempt
StdoutOf(attempt) == <<"stdout of attempt ", ToString(attempt)>>
StderrOf(attempt) == <<"stderr of attempt ", ToString(attempt)>>

\* the body entered without a slot being taken
AcquireFree(c) ==
    executors' = executors

\* line 126, async with self.semaphore: a slot is taken
Acquire(c) ==
    executors' = [executors EXCEPT ![calls[c].executor].value = @ - 1]

\* a body left without its slot being given back
ReleaseLeaks(c) ==
    executors' = executors

\* async with self.semaphore: release
Release(c) ==
    executors' = [executors EXCEPT ![calls[c].executor].value = @ + 1]

\* a result list built newest first
SeqResultsPrepend(results, result) == <<result>> \o results

\* the sequential loop of execute_commands appends every result
SeqResults(results, result) == Append(results, result)

\* execute_command returns `result`: the caller goes on.  In a sequential
\* call the loop of execute_commands appends the result and calls the next
\* command, or returns after the last; in a parallel call gather keeps it.
\* A call of the engine is over once _execute_watcher_commands has reported
\* its results: nothing of it is kept.
Return(c, i, task, result) ==
    LET done == [task EXCEPT !.pc = "done", !.result = result]
        sequential == ~calls[c].parallel
        last == i = Len(calls[c].commands)
        over == sequential /\ last /\ calls[c].owner = "engine"
    IN  /\ tasks' = [tasks EXCEPT ![c] =
                        IF over THEN <<>>
                        ELSE IF sequential /\ ~last
                        THEN [@ EXCEPT ![i] = done, ![i + 1].pc = "waiting"]
                        ELSE [@ EXCEPT ![i] = done]]
        /\ calls' = [calls EXCEPT ![c] =
                        IF over THEN NoCall
                        ELSE [@ EXCEPT
                                 !.finished = Append(@, i),
                                 !.results =
                                     IF sequential
                                     THEN SeqResults(@, result) ELSE @,
                                 !.state =
                                     IF sequential /\ last
                                     THEN "returned" ELSE @]]
        /\ IF sequential /\ last
           THEN Returned(c, SeqResults(calls[c].results, result))
           ELSE Silent /\ UNCHANGED engineState

\* lines 126-139: the slot is taken and a skip condition holds
EnterSkipped(c, i) ==
    /\ IsTask(c, i)
    /\ tasks[c][i].pc = "waiting"
    /\ ExecutorOf(c).value > 0
    /\ LET p == Prelude(ExecutorOf(c), CommandOf(c, i),
                        calls[c].template_vars, fs)
       IN  /\ p.outcome = "skipped"
           /\ Return(c, i,
                  [tasks[c][i] EXCEPT !.substituted = p.substituted,
                                      !.validated = p.validated,
                                      !.cmd_list = p.cmd_list],
                  ExecutionResult(CommandOf(c, i).name, TRUE, 0, <<>>, <<>>,
                                  TRUE, p.reason))
    /\ UNCHANGED <<sys_platform, fs, executors, harness, otherVars>>

\* lines 126-130, 278, 284: the slot is taken and the skip conditions raise.
\* Nothing catches the exception: it releases the slot, leaves
\* execute_command and reaches the caller of execute_commands, out of the
\* sequential loop or out of gather, which lets the other members run on.
EnterRaises(c, i) ==
    /\ IsTask(c, i)
    /\ tasks[c][i].pc = "waiting"
    /\ ExecutorOf(c).value > 0
    /\ Prelude(ExecutorOf(c), CommandOf(c, i), calls[c].template_vars,
               fs).outcome = "raised"
    /\ tasks' = [tasks EXCEPT ![c][i].pc = "raised"]
    /\ calls' = [calls EXCEPT ![c].state = "raised"]
    /\ UNCHANGED <<sys_platform, fs, executors, harness, engineState,
                   otherVars>>
    /\ Silent

\* lines 126-162: the slot is taken, no skip, the executable is not found
EnterInvalid(c, i) ==
    /\ IsTask(c, i)
    /\ tasks[c][i].pc = "waiting"
    /\ ExecutorOf(c).value > 0
    /\ LET p == Prelude(ExecutorOf(c), CommandOf(c, i),
                        calls[c].template_vars, fs)
       IN  /\ p.outcome = "invalid"
           /\ Return(c, i,
                  [tasks[c][i] EXCEPT !.substituted = p.substituted,
                                      !.validated = p.validated,
                                      !.cmd_list = p.cmd_list],
                  ExecutionResult(CommandOf(c, i).name, FALSE, NoReturnCode,
                                  <<>>, p.error, FALSE, NoReason))
    /\ UNCHANGED <<sys_platform, fs, executors, harness, otherVars>>

\* lines 126-167: the slot is taken and the retry loop is entered
EnterReady(c, i) ==
    /\ IsTask(c, i)
    /\ tasks[c][i].pc = "waiting"
    /\ ExecutorOf(c).value > 0
    /\ LET p == Prelude(ExecutorOf(c), CommandOf(c, i),
                        calls[c].template_vars, fs)
       IN  /\ p.outcome = "ready"
           /\ tasks' = [tasks EXCEPT ![c][i] =
                           [@ EXCEPT !.pc = "spawning", !.attempt = 0,
                                     !.substituted = p.substituted,
                                     !.validated = p.validated,
                                     !.cmd_list = p.cmd_list]]
    /\ Acquire(c)
    /\ UNCHANGED <<sys_platform, fs, calls, harness, engineState, otherVars>>
    /\ Silent

\* line 192 with the last retry left out
ShouldRetryOneLess(attempt, retries) == attempt + 1 < retries

\* line 192: a failed attempt is retried while attempts are left
ShouldRetry(attempt, retries) == attempt < retries

\* lines 322-327: the process is created
SpawnOK(c, i) ==
    /\ IsTask(c, i)
    /\ tasks[c][i].pc = "spawning"
    /\ tasks' = [tasks EXCEPT ![c][i] =
                    [@ EXCEPT !.pc = "running", !.spawns = @ + 1,
                              !.proc = "running"]]
    /\ UNCHANGED <<sys_platform, fs, executors, calls, harness, engineState,
                   otherVars>>
    /\ Silent

\* lines 233-242: creating the process raises OSError (or ValueError)
SpawnOSError(c, i) ==
    /\ IsTask(c, i)
    /\ tasks[c][i].pc = "spawning"
    /\ Return(c, i, [tasks[c][i] EXCEPT !.proc = "none"],
              ExecutionResult(CommandOf(c, i).name, FALSE, NoReturnCode,
                              <<>>, <<"OSError">>, FALSE, NoReason))
    /\ Release(c)
    /\ UNCHANGED <<sys_platform, fs, harness, otherVars>>

\* lines 175-189: the process exits with code 0
ProcExitSuccess(c, i) ==
    /\ IsTask(c, i)
    /\ tasks[c][i].pc = "running"
    /\ LET t == tasks[c][i] IN
       Return(c, i,
              [t EXCEPT !.proc = "exited", !.exits = Append(@, 0)],
              ExecutionResult(CommandOf(c, i).name, TRUE, 0,
                              StdoutOf(t.attempt), StderrOf(t.attempt),
                              FALSE, NoReason))
    /\ Release(c)
    /\ UNCHANGED <<sys_platform, fs, harness, otherVars>>

\* a failed attempt that gives its slot back for the back-off sleep
ProcExitRetryReleases(c, i, code) ==
    /\ IsTask(c, i)
    /\ tasks[c][i].pc = "running"
    /\ ShouldRetry(tasks[c][i].attempt, CommandOf(c, i).retries)
    /\ code # 0
    /\    tasks' = [tasks EXCEPT ![c][i] =
                       [@ EXCEPT !.pc = "sleeping", !.proc = "exited",
                                 !.exits = Append(@, code),
                                 !.wait_time =
                                     _calculate_retry_delay(
                                         tasks[c][i].attempt,
                                         CommandOf(c, i).retry_strategy)]]
    /\ Release(c)
    /\ UNCHANGED <<sys_platform, fs, calls, harness, engineState,
                   otherVars>>
    /\ Silent

\* lines 192-202: a non-zero exit with attempts left: back off
ProcExitRetry(c, i, code) ==
    /\ IsTask(c, i)
    /\ tasks[c][i].pc = "running"
    /\ ShouldRetry(tasks[c][i].attempt, CommandOf(c, i).retries)
    /\ code # 0
    /\    tasks' = [tasks EXCEPT ![c][i] =
                       [@ EXCEPT !.pc = "sleeping", !.proc = "exited",
                                 !.exits = Append(@, code),
                                 !.wait_time =
                                     _calculate_retry_delay(
                                         tasks[c][i].attempt,
                                         CommandOf(c, i).retry_strategy)]]
    /\ UNCHANGED <<sys_platform, fs, executors, calls, harness, engineState,
                   otherVars>>
    /\ Silent

\* lines 203-218: a non-zero exit of the final attempt
ProcExitFinal(c, i, code) ==
    /\ IsTask(c, i)
    /\ tasks[c][i].pc = "running"
    /\ ~ShouldRetry(tasks[c][i].attempt, CommandOf(c, i).retries)
    /\ code # 0
    /\    LET t == tasks[c][i] IN
          Return(c, i,
                 [t EXCEPT !.proc = "exited", !.exits = Append(@, code)],
                 ExecutionResult(CommandOf(c, i).name, FALSE, code,
                                 StdoutOf(t.attempt), StderrOf(t.attempt),
                                 FALSE, NoReason))
    /\ Release(c)
    /\ UNCHANGED <<sys_platform, fs, harness, otherVars>>

\* lines 347-349: wait_for times out, the process is killed
ProcTimeout(c, i) ==
    /\ IsTask(c, i)
    /\ tasks[c][i].pc = "running"
    /\ CommandOf(c, i).timeout # NoTimeout
    /\ tasks' = [tasks EXCEPT ![c][i] =
                    [@ EXCEPT !.pc = "reaping", !.proc = "killed"]]
    /\ UNCHANGED <<sys_platform, fs, executors, calls, harness, engineState,
                   otherVars>>
    /\ Silent

\* the timeout handled like a failed attempt: retried while attempts are left
ProcReapedRetry(c, i) ==
    /\ IsTask(c, i)
    /\ tasks[c][i].pc = "reaping"
    /\ IF ShouldRetry(tasks[c][i].attempt, CommandOf(c, i).retries)
       THEN /\ tasks' = [tasks EXCEPT ![c][i] =
                            [@ EXCEPT !.pc = "sleeping", !.proc = "reaped",
                                      !.wait_time = FixedDelay]]
            /\ UNCHANGED <<executors, calls, engineState>>
            /\ Silent
       ELSE /\ Return(c, i, [tasks[c][i] EXCEPT !.proc = "reaped"],
                      ExecutionResult(CommandOf(c, i).name, FALSE,
                          NoReturnCode, <<>>,
                          <<"Command ", "timed out after ",
                            ToString(CommandOf(c, i).timeout), "s">>,
                          FALSE, NoReason))
            /\ Release(c)
    /\ UNCHANGED <<sys_platform, fs, harness, otherVars>>

\* lines 350-351, 220-231: the killed process is reaped, TimeoutError ends
\* the command
ProcReaped(c, i) ==
    /\ IsTask(c, i)
    /\ tasks[c][i].pc = "reaping"
    /\ Return(c, i, [tasks[c][i] EXCEPT !.proc = "reaped"],
              ExecutionResult(CommandOf(c, i).name, FALSE, NoReturnCode,
                              <<>>,
                              <<"Command ", "timed out after ",
                                ToString(CommandOf(c, i).timeout), "s">>,
                              FALSE, NoReason))
    /\ Release(c)
    /\ UNCHANGED <<sys_platform, fs, harness, otherVars>>

\* line 202 to line 165: the back-off sleep ends, the next attempt starts
\* a back-off sleep that never ends
RetryOversleeps(c, i) ==
    /\ IsTask(c, i)
    /\ tasks[c][i].pc = "sleeping"
    /\ UNCHANGED vars

RetryWake(c, i) ==
    /\ IsTask(c, i)
    /\ tasks[c][i].pc = "sleeping"
    /\ tasks' = [tasks EXCEPT ![c][i] =
                    [@ EXCEPT !.pc = "spawning", !.attempt = @ + 1]]
    /\ UNCHANGED <<sys_platform, fs, executors, calls, harness, engineState,
                   otherVars>>
    /\ Silent

(***************************************************************************)
(* CommandExecutor.execute_commands.                                       *)
(***************************************************************************)
\* the results of a parallel call in the order the commands finished
GatherByCompletion(c) ==
    [k \in 1..Len(tasks[c]) |-> tasks[c][calls[c].finished[k]].result]

\* lines 278-279: gather gives the results in the order of the tasks
GatherResults(c) ==
    [k \in 1..Len(tasks[c]) |-> tasks[c][k].result]

\* lines 272-286: execute_commands is called; the parallel branch starts
\* every command, the sequential one the first
StartCall(c, owner, executor, commands, parallel, template_vars) ==
    /\ calls' = [calls EXCEPT ![c] =
                    [state |-> "active", owner |-> owner,
                     executor |-> executor,
                     commands |-> commands, parallel |-> parallel,
                     template_vars |-> template_vars, results |-> <<>>,
                     finished |-> <<>>]]
    /\ tasks' = [tasks EXCEPT ![c] =
                    [k \in 1..Len(commands) |->
                        IF parallel \/ k = 1
                        THEN [NewTask EXCEPT !.pc = "waiting"]
                        ELSE NewTask]]

\* a gather that returns with the first Failure and drops the siblings
GatherReturnOnFailure(c) ==
    /\ calls[c].state = "active"
    /\ calls[c].parallel
    /\ \/ \A k \in 1..Len(tasks[c]) : tasks[c][k].pc = "done"
       \/ \E k \in 1..Len(tasks[c]) :
              tasks[c][k].pc = "done" /\ ~tasks[c][k].result.success
    /\ calls' = [calls EXCEPT ![c] =
                    IF calls[c].owner = "engine" THEN NoCall
                    ELSE [@ EXCEPT !.state = "returned",
                                   !.results = GatherResults(c)]]
    /\ tasks' = [tasks EXCEPT ![c] =
                    IF calls[c].owner = "engine" THEN <<>> ELSE @]
    /\ Returned(c, GatherResults(c))
    /\ UNCHANGED <<sys_platform, fs, executors, harness, otherVars>>

\* lines 278-279: every task of a parallel call is done, gather returns
GatherReturn(c) ==
    /\ calls[c].state = "active"
    /\ calls[c].parallel
    /\ \A k \in 1..Len(tasks[c]) : tasks[c][k].pc = "done"
    /\ calls' = [calls EXCEPT ![c] =
                    IF calls[c].owner = "engine" THEN NoCall
                    ELSE [@ EXCEPT !.state = "returned",
                                   !.results = GatherResults(c)]]
    /\ tasks' = [tasks EXCEPT ![c] =
                    IF calls[c].owner = "engine" THEN <<>> ELSE @]
    /\ Returned(c, GatherResults(c))
    /\ UNCHANGED <<sys_platform, fs, executors, harness, otherVars>>

(***************************************************************************)
(* WatchFlowEngine: the actions.                                           *)
(***************************************************************************)
\* _initialize_watchers: the names of the groups in the order of the
\* configuration
GroupNames(config) ==
    [k \in 1..Len(config.watchers) |-> config.watchers[k].name]

\* lines 55-77: start() up to its loop
Start ==
    /\ engine.main = "constructed"
    /\ engine' = [engine EXCEPT
                     !.running = TRUE,
                     !.loop = TRUE,
                     !.config_hash =
                         IF engine.enable_hot_reload
                         THEN compute_file_hash(disk.content)
                         ELSE @,
                     !.main = "sleeping",
                     !.starts = @ + 1]
    /\ watcher' = [watcher EXCEPT
                      !.handlers = @ \o GroupNames(engine.config),
                      !.state = "started"]
    /\ ui' = << Notification("watching_start", <<>>) >>
    /\ UNCHANGED <<disk, loopq, execVars, otherVars>>

\* lines 55-74: start() is called while the engine runs.  Nothing checks
\* self.running: the groups are registered again, and the call ends at
\* line 74, where the observer's thread, already started, raises
\* RuntimeError
StartAgain ==
    /\ engine.main = "sleeping"
    /\ engine.running
    /\ engine.starts <= MaxStarts
    /\ engine' = [engine EXCEPT
                     !.config_hash =
                         IF engine.enable_hot_reload
                         THEN compute_file_hash(disk.content)
                         ELSE @,
                     !.starts = @ + 1]
    /\ watcher' = [watcher EXCEPT
                      !.handlers = @ \o GroupNames(engine.config)]
    /\ UNCHANGED <<disk, loopq, execVars, otherVars>>
    /\ Silent

\* lines 84-89: the task awaiting start() is cancelled in the sleep of the
\* loop; start() leaves through stop()
CancelStart ==
    /\ engine.main = "sleeping"
    /\ LET stopped == StopEffect(engine, watcher) IN
          /\ engine' = [stopped.engine EXCEPT !.main = "returned"]
          /\ watcher' = stopped.watcher
    /\ UNCHANGED <<disk, loopq, execVars, otherVars>>
    /\ Silent

\* the next free CommandExecutor object
FreshExecutor == CHOOSE e \in ExecIds : ~executors[e].created

\* a reload that leaves the executor in place
ReloadEffectKeepExecutor(eng) ==
    LET new_hash == compute_file_hash(disk.content)
        loaded == load_config(disk.content)
    IN  IF eng.config_hash = NoHash THEN [kind |-> "none", engine |-> eng]
        ELSE IF new_hash = NoHash \/ new_hash = eng.config_hash
             THEN [kind |-> "none", engine |-> eng]
             ELSE IF loaded.ok
                  THEN [kind |-> "kept",
                        engine |-> [eng EXCEPT !.config = loaded.config,
                                               !.config_hash = new_hash]]
                  ELSE [kind |-> "failed", engine |-> eng]

\* a failed load takes the engine down
ReloadEffectCrash(eng) ==
    LET new_hash == compute_file_hash(disk.content)
        loaded == load_config(disk.content)
    IN  IF eng.config_hash = NoHash THEN [kind |-> "none", engine |-> eng]
        ELSE IF new_hash = NoHash \/ new_hash = eng.config_hash
             THEN [kind |-> "none", engine |-> eng]
             ELSE IF loaded.ok
                  THEN [kind |-> "reloaded",
                        engine |-> [eng EXCEPT !.config = loaded.config,
                                               !.config_hash = new_hash,
                                               !.executor = FreshExecutor]]
                  ELSE [kind |-> "failed",
                        engine |-> [eng EXCEPT !.running = FALSE]]

\* a failed load whose fingerprint is stored all the same
ReloadEffectRemembers(eng) ==
    LET new_hash == compute_file_hash(disk.content)
        loaded == load_config(disk.content)
    IN  IF eng.config_hash = NoHash THEN [kind |-> "none", engine |-> eng]
        ELSE IF new_hash = NoHash \/ new_hash = eng.config_hash
             THEN [kind |-> "none", engine |-> eng]
             ELSE IF loaded.ok
                  THEN [kind |-> "reloaded",
                        engine |-> [eng EXCEPT !.config = loaded.config,
                                               !.config_hash = new_hash,
                                               !.executor = FreshExecutor]]
                  ELSE [kind |-> "failed",
                        engine |-> [eng EXCEPT !.config_hash = new_hash]]

\* _check_config_reload, lines 91-120
ReloadEffect(eng) ==
    LET new_hash == compute_file_hash(disk.content)
        loaded == load_config(disk.content)
    IN  IF eng.config_hash = NoHash THEN [kind |-> "none", engine |-> eng]
        ELSE IF new_hash = NoHash \/ new_hash = eng.config_hash
             THEN [kind |-> "none", engine |-> eng]
             ELSE IF loaded.ok
                  THEN [kind |-> "reloaded",
                        engine |-> [eng EXCEPT !.config = loaded.config,
                                               !.config_hash = new_hash,
                                               !.executor = FreshExecutor]]
                  ELSE [kind |-> "failed", engine |-> eng]

\* a tick whose reload cancels the groups of the engine that are executing
TickCancels ==
    /\ engine.main = "sleeping"
    /\ LET r == IF engine.enable_hot_reload
                THEN ReloadEffect(engine)
                ELSE [kind |-> "none", engine |-> engine]
       IN  /\ engine' = IF r.engine.running
                        THEN r.engine
                        ELSE [StopEffect(r.engine, watcher).engine
                                 EXCEPT !.main = "returned"]
           /\ executors' =
                  IF r.kind = "reloaded"
                  THEN [executors EXCEPT ![r.engine.executor] =
                           NewExecutor(
                               r.engine.config.global_config
                                   .max_parallel_commands, TRUE)]
                  ELSE executors
           /\ ui' = CASE r.kind = "reloaded" ->
                            << Notification("info", <<"reloaded">>) >>
                       [] r.kind = "failed" ->
                            << Notification("warning", <<"reload failed">>) >>
                       [] OTHER -> <<>>
           /\ calls' = [c \in CallIds |->
                           IF r.kind = "reloaded" /\ calls[c].owner = "engine"
                           THEN NoCall ELSE calls[c]]
           /\ tasks' = [c \in CallIds |->
                           IF r.kind = "reloaded" /\ calls[c].owner = "engine"
                           THEN <<>> ELSE tasks[c]]
    /\ UNCHANGED <<sys_platform, fs, harness, disk, watcher,
                   loopq, otherVars>>

\* a tick whose reload registers the groups of the new configuration
TickReregisters ==
    /\ engine.main = "sleeping"
    /\ LET r == IF engine.enable_hot_reload
                THEN ReloadEffect(engine)
                ELSE [kind |-> "none", engine |-> engine]
       IN  /\ engine' = IF r.engine.running
                        THEN r.engine
                        ELSE [StopEffect(r.engine, watcher).engine
                                 EXCEPT !.main = "returned"]
           /\ executors' =
                  IF r.kind = "reloaded"
                  THEN [executors EXCEPT ![r.engine.executor] =
                           NewExecutor(
                               r.engine.config.global_config
                                   .max_parallel_commands, TRUE)]
                  ELSE executors
           /\ ui' = CASE r.kind = "reloaded" ->
                            << Notification("info", <<"reloaded">>) >>
                       [] r.kind = "failed" ->
                            << Notification("warning", <<"reload failed">>) >>
                       [] OTHER -> <<>>
           /\ watcher' = IF r.kind = "reloaded"
                         THEN [watcher EXCEPT
                                  !.handlers = GroupNames(r.engine.config)]
                         ELSE watcher
    /\ UNCHANGED <<sys_platform, fs, calls, tasks, harness, disk,
                   loopq, otherVars>>

\* lines 81-89: the loop of start() wakes from its sleep, checks the
\* configuration file, and leaves through stop() once running is false
Tick ==
    /\ engine.main = "sleeping"
    /\ LET r == IF engine.enable_hot_reload
                THEN ReloadEffect(engine)
                ELSE [kind |-> "none", engine |-> engine]
       IN  /\ engine' = IF r.engine.running
                        THEN r.engine
                        ELSE [StopEffect(r.engine, watcher).engine
                                 EXCEPT !.main = "returned"]
           /\ executors' =
                  IF r.kind = "reloaded"
                  THEN [executors EXCEPT ![r.engine.executor] =
                           NewExecutor(
                               r.engine.config.global_config
                                   .max_parallel_commands, TRUE)]
                  ELSE executors
           /\ ui' = CASE r.kind = "reloaded" ->
                            << Notification("info", <<"reloaded">>) >>
                       [] r.kind = "failed" ->
                            << Notification("warning", <<"reload failed">>) >>
                       [] OTHER -> <<>>
    /\ UNCHANGED <<sys_platform, fs, calls, tasks, harness, disk, watcher,
                   loopq, otherVars>>

\* something outside rewrites the configuration file, `bound` being the
\* number of rewrites that are looked at
Rewrite(content, bound) ==
    /\ engine.main # "absent"
    /\ disk.edits < bound
    /\ content # disk.content
    /\ disk' = [content |-> content, edits |-> disk.edits + 1]
    /\ UNCHANGED <<engine, watcher, loopq, execVars, otherVars>>
    /\ Silent

EditConfig(content) == Rewrite(content, MaxReloads)

\* a hand-off that waits until the loop has handled the earlier
\* notifications and no command is in progress
HandoffWaits(name, event_type, bound) ==
    /\ watcher.state = "started"
    /\ name \in Range(watcher.handlers)
    /\ Len(loopq) < bound
    /\ \A k \in 1..Len(loopq) : loopq[k].kind # "callback"
    /\ InFlight = {}
    /\ loopq' = Append(loopq,
                       CallbackItem(event_type, << <<"main", ".py">> >>, name))
    /\ UNCHANGED <<engine, disk, watcher, execVars, otherVars>>
    /\ Silent

\* watcher.py lines 125-130: the watch thread hands a surviving event of a
\* registered group to the loop with run_coroutine_threadsafe, which
\* appends to the loop's unbounded queue and returns; `bound` is the
\* length up to which the queue is looked at
Handoff(name, event_type, bound) ==
    /\ watcher.state = "started"
    /\ name \in Range(watcher.handlers)
    /\ Len(loopq) < bound
    /\ loopq' = Append(loopq,
                       CallbackItem(event_type, << <<"main", ".py">> >>, name))
    /\ UNCHANGED <<engine, disk, watcher, execVars, otherVars>>
    /\ Silent

Notify(name, event_type) == Handoff(name, event_type, MaxQueue)

\* lines 267-274: a termination signal arrives
Signal ==
    /\ engine.main \in {"sleeping"}
    /\ engine.signals < MaxSignals
    /\ engine' = [engine EXCEPT !.signals = @ + 1]
    /\ ui' = << Notification("shutdown", <<>>) >>
    /\ loopq' = IF engine.loop /\ engine.running
                THEN Append(loopq, StopItem) ELSE loopq
    /\ UNCHANGED <<disk, watcher, execVars, otherVars>>

\* a name that no group has is taken for the first group
FindWatcherOrFirst(config, watcher_name) ==
    LET found == { k \in 1..Len(config.watchers) :
                       config.watchers[k].name = watcher_name }
    IN  IF found = {} THEN config.watchers[1]
        ELSE config.watchers[CHOOSE k \in found : \A j \in found : k <= j]

\* the configured group of that name, lines 161-165
FindWatcher(config, watcher_name) ==
    LET found == { k \in 1..Len(config.watchers) :
                       config.watchers[k].name = watcher_name }
    IN  IF found = {} THEN Watcher(<<>>, FALSE, <<>>)
        ELSE config.watchers[CHOOSE k \in found : \A j \in found : k <= j]

\* the check of self.running left out
NeverStopped(eng) == FALSE

\* lines 157-158: if not self.running: return
Stopped(eng) == ~eng.running

\* a handler that waits for the groups dispatched before
HandleCallbackAwaits ==
    /\ loopq # <<>>
    /\ Head(loopq).kind = "callback"
    /\ InFlight = {}
    /\ LET item == Head(loopq)
           watcher_config == FindWatcher(engine.config, item.watcher_name)
           first == IF item.paths # <<>> THEN item.paths[1] ELSE <<>>
       IN  IF Stopped(engine)
           THEN /\ loopq' = Tail(loopq)
                /\ engine' = [engine EXCEPT !.dropped = "stopped"]
                /\ Silent
           ELSE IF watcher_config.commands = <<>>
           THEN /\ loopq' = Tail(loopq)
                /\ engine' = [engine EXCEPT !.dropped = "watcher_not_found"]
                /\ Silent
           ELSE /\ ui' = << Notification("file_event",
                                                item.watcher_name) >>
                /\ engine' = engine
                /\ loopq' =
                       IF engine.loop
                       THEN Append(Tail(loopq),
                                DispatchItem(watcher_config,
                                    create_context(first, first,
                                        item.event_type, item.watcher_name)))
                       ELSE Tail(loopq)
    /\ UNCHANGED <<disk, watcher, execVars, otherVars>>

\* _async_callback and _on_file_event, lines 147-191
HandleCallback ==
    /\ loopq # <<>>
    /\ Head(loopq).kind = "callback"
    /\ LET item == Head(loopq)
           watcher_config == FindWatcher(engine.config, item.watcher_name)
           first == IF item.paths # <<>> THEN item.paths[1] ELSE <<>>
       IN  IF Stopped(engine)
           THEN /\ loopq' = Tail(loopq)
                /\ engine' = [engine EXCEPT !.dropped = "stopped"]
                /\ Silent
           ELSE IF watcher_config.commands = <<>>
           THEN /\ loopq' = Tail(loopq)
                /\ engine' = [engine EXCEPT !.dropped = "watcher_not_found"]
                /\ Silent
           ELSE /\ ui' = << Notification("file_event",
                                                item.watcher_name) >>
                /\ engine' = engine
                /\ loopq' =
                       IF engine.loop
                       THEN Append(Tail(loopq),
                                DispatchItem(watcher_config,
                                    create_context(first, first,
                                        item.event_type, item.watcher_name)))
                       ELSE Tail(loopq)
    /\ UNCHANGED <<disk, watcher, execVars, otherVars>>

\* a dispatch that waits while the same group is executing
StartDispatchSerialized(c) ==
    /\ loopq # <<>>
    /\ Head(loopq).kind = "dispatch"
    /\ calls[c].state # "active"
    /\ \A d \in CallIds : d < c => calls[d].state = "active"
    /\ \A d \in InFlight :
           calls[d].commands # Head(loopq).watcher_config.commands
    /\ StartCall(c, "engine", engine.executor,
                 Head(loopq).watcher_config.commands,
                 Head(loopq).watcher_config.parallel,
                 Head(loopq).template_vars)
    /\ loopq' = Tail(loopq)
    /\ UNCHANGED <<sys_platform, fs, executors, harness, engine, disk,
                   watcher, otherVars>>
    /\ Silent

\* lines 193-208: _execute_watcher_commands starts and calls the executor
\* the engine holds at that moment
StartDispatch(c) ==
    /\ loopq # <<>>
    /\ Head(loopq).kind = "dispatch"
    /\ calls[c].state # "active"
    /\ \A d \in CallIds : d < c => calls[d].state = "active"
    /\ StartCall(c, "engine", engine.executor,
                 Head(loopq).watcher_config.commands,
                 Head(loopq).watcher_config.parallel,
                 Head(loopq).template_vars)
    /\ loopq' = Tail(loopq)
    /\ UNCHANGED <<sys_platform, fs, executors, harness, engine, disk,
                   watcher, otherVars>>
    /\ Silent

\* the stop() that the signal handler scheduled runs
RunStop ==
    /\ loopq # <<>>
    /\ Head(loopq).kind = "stop"
    /\ LET stopped == StopEffect(engine, watcher) IN
          /\ engine' = stopped.engine
          /\ watcher' = stopped.watcher
    /\ loopq' = Tail(loopq)
    /\ UNCHANGED <<disk, execVars, otherVars>>
    /\ Silent

(***************************************************************************)
(* The direct caller (as the tests call the executor) and the environment. *)
(***************************************************************************)
\* what the caller keeps of the results of its previous call
SkipReasons(results) == [k \in 1..Len(results) |-> results[k].skip_reason]

\* the caller awaits execute_commands(group), and again once it returned
Invoke ==
    /\ harness.active
    /\ calls[1].state # "active"
    /\ \A k \in 1..Len(tasks[1]) : tasks[1][k].pc \in {"idle", "done", "raised"}
    /\ StartCall(1, "harness", 0, harness.commands, harness.parallel,
                 HarnessVars)
    /\ harness' = [harness EXCEPT
                      !.invocations = Min(@ + 1, 2),
                      !.previous = SkipReasons(calls[1].results)]
    /\ UNCHANGED <<sys_platform, fs, executors, engineState, otherVars>>
    /\ Silent

\* something outside creates a path under the project root
FsCreate(p) ==
    /\ p \notin fs
    /\ fs' = fs \cup {p}
    /\ UNCHANGED <<sys_platform, executors, calls, tasks, harness, engineState,
                   otherVars>>
    /\ Silent

\* something outside deletes a path under the project root
FsDelete(p) ==
    /\ p \in fs
    /\ fs' = fs \ {p}
    /\ UNCHANGED <<sys_platform, executors, calls, tasks, harness, engineState,
                   otherVars>>
    /\ Silent

\* the steps that commands without retries and timeout take, their
\* processes being created and exiting with 0 or 1
PlainStep(c, i) ==
    \/ EnterSkipped(c, i)
    \/ EnterInvalid(c, i)
    \/ EnterReady(c, i)
    \/ SpawnOK(c, i)
    \/ ProcExitSuccess(c, i)
    \/ \E code \in EngineExitCodes : ProcExitFinal(c, i, code)

ExecutorStep(c, i) ==
    \/ EnterSkipped(c, i)
    \/ EnterInvalid(c, i)
    \/ EnterReady(c, i)
    \/ SpawnOK(c, i)
    \/ SpawnOSError(c, i)
    \/ ProcExitSuccess(c, i)
    \/ \E code \in ExitCodes : ProcExitRetry(c, i, code)
    \/ \E code \in ExitCodes : ProcExitFinal(c, i, code)
    \/ ProcTimeout(c, i)
    \/ ProcReaped(c, i)
    \/ RetryWake(c, i)

DelayIdle == d_attempt = 0 /\ d_strategy = FIXED /\ d_wait = 0

\* no call of substitute_list is looked at
NotCalled == [called |-> FALSE, value |-> <<>>]
TemplateIdle == t_templates = <<>> /\ t_variables = <<>> /\ t_result = NotCalled

\* no watch group is registered with a FileWatcher of its own
NoHandler ==
    [created |-> FALSE, watcher_config |-> <<>>, debounce_ms |-> 0,
     use_hash_detection |-> TRUE, pending_events |-> <<>>,
     file_hashes |-> <<>>, event_loop |-> FALSE]

NoObserver ==
    [watches |-> {}, warnings |-> {}, raised |-> "none", started |-> FALSE]

DetectorIdle ==
    /\ clock = 0
    /\ contents = <<>>
    /\ observer = NoObserver
    /\ handler = NoHandler
    /\ w_log = <<>>

\* the pure functions and the change detector are not looked at
PureIdle == DelayIdle /\ TemplateIdle /\ DetectorIdle

Harness(commands, parallel) ==
    [active |-> TRUE, commands |-> commands, parallel |-> parallel,
     invocations |-> 0, previous |-> <<>>]

\* one command, called again and again while the project's files change
InitExec ==
    /\ sys_platform \in {"linux", "win32"}
    /\ fs \in SUBSET FsUniverse
    /\ \E k \in 1..MaxParallel :
          executors = [e \in ExecIds |->
                          IF e = 0 THEN NewExecutor(k, TRUE) ELSE NoExecutor]
    /\ calls = [c \in CallIds |-> NoCall]
    /\ tasks = [c \in CallIds |-> <<>>]
    /\ \E g \in Singles, par \in BOOLEAN : harness = Harness(g, par)
    /\ EngineIdle
    /\ PureIdle

NextExec ==
    \/ Invoke
    \/ \E c \in CallIds, i \in 1..MaxCmds : ExecutorStep(c, i)
    \/ \E c \in CallIds : GatherReturn(c)
    \/ \E p \in FsUniverse : FsCreate(p)
    \/ \E p \in FsUniverse : FsDelete(p)

SpecExec == InitExec /\ [][NextExec]_vars

\* a group of commands, with the project's files as they are
InitGroup ==
    /\ sys_platform = "linux"
    /\ fs = {}
    /\ \E k \in 1..MaxParallel :
          executors = [e \in ExecIds |->
                          IF e = 0 THEN NewExecutor(k, TRUE) ELSE NoExecutor]
    /\ calls = [c \in CallIds |-> NoCall]
    /\ tasks = [c \in CallIds |-> <<>>]
    /\ \E g \in Groups, par \in BOOLEAN : harness = Harness(g, par)
    /\ EngineIdle
    /\ PureIdle

NextGroup ==
    \/ Invoke
    \/ \E c \in CallIds, i \in 1..MaxCmds : ExecutorStep(c, i)
    \/ \E c \in CallIds : GatherReturn(c)

SpecGroup == InitGroup /\ [][NextGroup]_vars

\* the event loop runs every callback that is ready, a sleep ends, and a
\* process that was spawned exits or runs into its timeout: a step of a
\* command that can be taken is taken, and a gather whose tasks are done
\* returns
SpecGroupFair ==
    /\ SpecGroup
    /\ WF_vars(\E c \in CallIds, i \in 1..MaxCmds : ExecutorStep(c, i))
    /\ WF_vars(\E c \in CallIds : GatherReturn(c))

\* the commands of the groups in which a skip condition may raise
RaisePool ==
    GroupPool \o
    << Command(<<"cmd", "5">>, EchoPath, NoTimeout, 0, FIXED, TooLong) >>

RaiseGroups ==
    { [k \in 1..n |-> RaisePool[((s + k - 2) % Len(RaisePool)) + 1]] :
          s \in 1..Len(RaisePool), n \in 1..MaxCmds }

\* a group with a command whose skip_until_exists cannot be looked up
InitRaise ==
    /\ sys_platform = "linux"
    /\ fs = {}
    /\ \E k \in 1..MaxParallel :
          executors = [e \in ExecIds |->
                          IF e = 0 THEN NewExecutor(k, TRUE) ELSE NoExecutor]
    /\ calls = [c \in CallIds |-> NoCall]
    /\ tasks = [c \in CallIds |-> <<>>]
    /\ \E g \in RaiseGroups, par \in BOOLEAN : harness = Harness(g, par)
    /\ EngineIdle
    /\ PureIdle

NextRaise ==
    \/ Invoke
    \/ \E c \in CallIds, i \in 1..MaxCmds : ExecutorStep(c, i)
    \/ \E c \in CallIds, i \in 1..MaxCmds : EnterRaises(c, i)
    \/ \E c \in CallIds : GatherReturn(c)

SpecRaise == InitRaise /\ [][NextRaise]_vars

EventTypes == {"modified"}

\* an engine constructed with ConfigA, its file unchanged since it was loaded
InitEngine ==
    /\ sys_platform = "linux"
    /\ fs = {}
    /\ executors =
           [e \in ExecIds |->
               IF e = 0
               THEN NewExecutor(ConfigA.global_config.max_parallel_commands,
                                TRUE)
               ELSE NoExecutor]
    /\ calls = [c \in CallIds |-> NoCall]
    /\ tasks = [c \in CallIds |-> <<>>]
    /\ harness = [Harness(<<>>, FALSE) EXCEPT !.active = FALSE]
    /\ \E hot \in BOOLEAN :
          engine = [NoEngine EXCEPT !.enable_hot_reload = hot,
                                    !.main = "constructed"]
    /\ disk = [content |-> "A", edits |-> 0]
    /\ watcher = NoWatcher
    /\ loopq = <<>>
    /\ ui = <<>>
    /\ PureIdle

NextEngine ==
    \/ Start
    \/ Tick
    \/ \E content \in DiskContents : EditConfig(content)
    \/ \E name \in {<<"py">>, <<"docs">>}, t \in EventTypes : Notify(name, t)
    \/ Signal
    \/ HandleCallback
    \/ \E c \in CallIds : StartDispatch(c)
    \/ RunStop
    \/ \E c \in CallIds, i \in 1..MaxCmds : PlainStep(c, i)
    \/ \E c \in CallIds : GatherReturn(c)

SpecEngine == InitEngine /\ [][NextEngine]_vars

\* an engine without hot reload whose watch thread sends bursts of
\* notifications
InitHandoff ==
    /\ sys_platform = "linux"
    /\ fs = {}
    /\ \E config \in {ConfigA, ConfigB} :
          /\ executors =
                 [e \in ExecIds |->
                     IF e = 0
                     THEN NewExecutor(config.global_config.max_parallel_commands,
                                      TRUE)
                     ELSE NoExecutor]
          /\ engine = [NoEngine EXCEPT !.config = config,
                                       !.main = "constructed"]
    /\ calls = [c \in CallIds |-> NoCall]
    /\ tasks = [c \in CallIds |-> <<>>]
    /\ harness = [Harness(<<>>, FALSE) EXCEPT !.active = FALSE]
    /\ disk = [content |-> "A", edits |-> 0]
    /\ watcher = NoWatcher
    /\ loopq = <<>>
    /\ ui = <<>>
    /\ PureIdle

NextHandoff ==
    \/ Start
    \/ \E name \in {<<"py">>, <<"docs">>}, t \in EventTypes :
           Handoff(name, t, MaxPending)
    \/ HandleCallback
    \/ \E c \in CallIds : StartDispatch(c)
    \/ \E c \in CallIds, i \in 1..MaxCmds : PlainStep(c, i)
    \/ \E c \in CallIds : GatherReturn(c)

SpecHandoff == InitHandoff /\ [][NextHandoff]_vars

\* an engine with hot reload, constructed with ConfigA or ConfigB, its file
\* unchanged since it was loaded and then rewritten up to MaxEdits times
InitReload ==
    /\ sys_platform = "linux"
    /\ fs = {}
    /\ \E content \in {"A", "B"} :
          LET config == load_config(content).config IN
          /\ executors =
                 [e \in ExecIds |->
                     IF e = 0
                     THEN NewExecutor(config.global_config.max_parallel_commands,
                                      TRUE)
                     ELSE NoExecutor]
          /\ engine = [NoEngine EXCEPT !.config = config,
                                       !.enable_hot_reload = TRUE,
                                       !.main = "constructed"]
          /\ disk = [content |-> content, edits |-> 0]
    /\ calls = [c \in CallIds |-> NoCall]
    /\ tasks = [c \in CallIds |-> <<>>]
    /\ harness = [Harness(<<>>, FALSE) EXCEPT !.active = FALSE]
    /\ watcher = NoWatcher
    /\ loopq = <<>>
    /\ ui = <<>>
    /\ PureIdle

NextReload ==
    \/ Start
    \/ Tick
    \/ \E content \in DiskContents : Rewrite(content, MaxEdits)
    \/ \E name \in {<<"py">>, <<"docs">>}, t \in EventTypes : Notify(name, t)
    \/ HandleCallback
    \/ \E c \in CallIds : StartDispatch(c)
    \/ \E c \in CallIds, i \in 1..MaxCmds : PlainStep(c, i)
    \/ \E c \in CallIds : GatherReturn(c)

SpecReload == InitReload /\ [][NextReload]_vars

\* an engine without hot reload, and what its caller can do with it
InitLifecycle ==
    /\ sys_platform = "linux"
    /\ fs = {}
    /\ \E config \in {ConfigA, ConfigB, ConfigC} :
          /\ executors =
                 [e \in ExecIds |->
                     IF e = 0
                     THEN NewExecutor(config.global_config.max_parallel_commands,
                                      TRUE)
                     ELSE NoExecutor]
          /\ engine = [NoEngine EXCEPT !.config = config,
                                       !.main = "constructed"]
    /\ calls = [c \in CallIds |-> NoCall]
    /\ tasks = [c \in CallIds |-> <<>>]
    /\ harness = [Harness(<<>>, FALSE) EXCEPT !.active = FALSE]
    /\ disk = [content |-> "A", edits |-> 0]
    /\ watcher = NoWatcher
    /\ loopq = <<>>
    /\ ui = <<>>
    /\ PureIdle

NextLifecycle ==
    \/ Start
    \/ StartAgain
    \/ CancelStart
    \/ Tick
    \/ \E name \in {<<"py">>, <<"docs">>}, t \in EventTypes : Notify(name, t)
    \/ Signal
    \/ HandleCallback
    \/ \E c \in CallIds : StartDispatch(c)
    \/ RunStop
    \/ \E c \in CallIds, i \in 1..MaxCmds : PlainStep(c, i)
    \/ \E c \in CallIds : GatherReturn(c)

SpecLifecycle == InitLifecycle /\ [][NextLifecycle]_vars

(***************************************************************************)
(* One evaluation of the retry delay.                                      *)
(***************************************************************************)
ExecIdle ==
    /\ sys_platform = "linux"
    /\ fs = {}
    /\ executors = [e \in ExecIds |-> NoExecutor]
    /\ calls = [c \in CallIds |-> NoCall]
    /\ tasks = [c \in CallIds |-> <<>>]
    /\ harness = [Harness(<<>>, FALSE) EXCEPT !.active = FALSE]

InitDelay ==
    /\ d_attempt \in 0..MaxDelayAttempt
    /\ d_strategy \in RetryStrategy
    /\ d_wait = 0
    /\ TemplateIdle
    /\ DetectorIdle
    /\ ExecIdle
    /\ EngineIdle

\* wait_time = self._calculate_retry_delay(attempt, command.retry_strategy)
CalcDelay ==
    /\ d_wait = 0
    /\ d_wait' = _calculate_retry_delay(d_attempt, d_strategy)
    /\ UNCHANGED <<d_attempt, d_strategy, templateVars, detectorVars, execVars,
                   engineVars>>

SpecDelay == InitDelay /\ [][CalcDelay]_vars

(***************************************************************************)
(* One call of TemplateEngine.substitute_list.                             *)
(***************************************************************************)
MaxTemplateLen == 6
MaxList == 2

\* the pieces of the templates: the braces, names in and out of \w+, text
TemplateChunks == {"{{", "}}", "path", "tool"}

Templates ==
    UNION { [1..n -> TemplateChunks] : n \in 0..MaxTemplateLen }

\* an argv template
ArgvPool ==
    << <<"echo">>, <<"{{", "path", "}}">>, <<"{{", "tool", "}}">>,
       <<"{{", " path ", "}}">> >>

Argvs == UNION { [1..n -> Range(ArgvPool)] : n \in 0..MaxList }

\* the values of a context; a value may itself read like a placeholder
ContextValues == { <<"main", ".py">>, <<"{{", "tool", "}}">> }

Contexts ==
    UNION { [names -> ContextValues] : names \in SUBSET {"path", "tool"} }

InitTemplate ==
    /\ \/ \E t \in Templates : t_templates = <<t>>
       \/ t_templates \in Argvs
    /\ t_variables \in Contexts
    /\ t_result = NotCalled
    /\ DelayIdle
    /\ DetectorIdle
    /\ ExecIdle
    /\ EngineIdle

\* result = TemplateEngine.substitute_list(templates, variables)
SubstituteList ==
    /\ t_result = NotCalled
    /\ t_result' = [called |-> TRUE,
                     value |-> substitute_list(t_templates, t_variables)]
    /\ UNCHANGED <<t_templates, t_variables, delayVars, detectorVars, execVars,
                   engineVars>>

SpecTemplate == InitTemplate /\ [][SubstituteList]_vars

(***************************************************************************)
(* The change detector: FileWatcher.add_watcher for one watch group and    *)
(* the WatcherEventHandler it creates.  A path is the string of its        *)
(* chunks, "/" being a chunk of its own.                                   *)
(***************************************************************************)
MaxEvents == 3
MaxClock == 150
TimeStep == 50
DefaultDebounce == 100

WatcherConfig(name, paths, patterns, ignore_patterns, debounce) ==
    [name |-> name, paths |-> paths, patterns |-> patterns,
     ignore_patterns |-> ignore_patterns, debounce |-> debounce]

SrcMainPy == <<"src", "/", "main", ".py">>
SrcMainPyc == <<"src", "/", "main", ".pyc">>
DocsNotesMd == <<"docs", "/", "notes", ".md">>

\* patterns: None
NoPatterns == <<>>

\* the watch groups: include patterns, ignore patterns, debounce
WatcherConfigs ==
    { WatcherConfig(<<"py">>, << <<"src">>, <<"docs">> >>, g[1], g[2], g[3]) :
        g \in { <<NoPatterns, NoPatterns, DefaultDebounce>>,
                <<NoPatterns, NoPatterns, 0>>,
                << << <<"*", ".py">> >>, NoPatterns, DefaultDebounce >>,
                << NoPatterns, << <<"*", ".pyc">> >>, DefaultDebounce >>,
                << << <<"*", ".md">>, <<"*", ".py">> >>, << <<"docs", "/">> >>,
                   DefaultDebounce >>,
                << << <<"*", ".py">> >>, << <<"main">> >>, DefaultDebounce >> } }

\* Path(path).name
PathName(path) ==
    LET slashes == { k \in 1..Len(path) : path[k] = "/" }
        last == IF slashes = {} THEN 0
                ELSE CHOOSE k \in slashes : \A j \in slashes : j <= k
    IN  SubSeq(path, last + 1, Len(path))

\* the include patterns looked at before the ignore patterns
ShouldProcessIncludeFirst(watcher_config, path) ==
    LET filename == PathName(path)
        ignore == watcher_config.ignore_patterns
        patterns == watcher_config.patterns
    IN  IF \E k \in 1..Len(patterns) : fnmatch(filename, patterns[k])
        THEN TRUE
        ELSE IF \E k \in 1..Len(ignore) :
                   fnmatch(filename, ignore[k]) \/ Contains(path, ignore[k])
             THEN FALSE
             ELSE patterns = NoPatterns

\* WatcherEventHandler._should_process
_should_process(watcher_config, path) ==
    LET filename == PathName(path)
        ignore == watcher_config.ignore_patterns
        patterns == watcher_config.patterns
    IN  IF \E k \in 1..Len(ignore) :
               fnmatch(filename, ignore[k]) \/ Contains(path, ignore[k])
        THEN FALSE
        ELSE IF patterns # NoPatterns
             THEN \E k \in 1..Len(patterns) : fnmatch(filename, patterns[k])
             ELSE TRUE

\* d with d[key] = value
Put(d, key, value) ==
    [k \in DOMAIN d \cup {key} |-> IF k = key THEN value ELSE d[k]]

\* the hash compared but not stored
HasContentChangedNoStore(file_hashes, path, content) ==
    LET new_hash == compute_file_hash(content) IN
    [changed |-> \/ new_hash = NoHash
                 \/ path \notin DOMAIN file_hashes
                 \/ file_hashes[path] # new_hash,
     file_hashes |-> IF path \in DOMAIN file_hashes \/ new_hash = NoHash
                     THEN file_hashes ELSE Put(file_hashes, path, new_hash)]

\* the hash of a file that cannot be read is dropped from the cache
HasContentChangedForgets(file_hashes, path, content) ==
    LET new_hash == compute_file_hash(content) IN
    IF new_hash = NoHash
    THEN [changed |-> TRUE,
          file_hashes |-> [k \in DOMAIN file_hashes \ {path} |-> file_hashes[k]]]
    ELSE [changed |-> \/ path \notin DOMAIN file_hashes
                      \/ file_hashes[path] # new_hash,
          file_hashes |-> Put(file_hashes, path, new_hash)]

\* WatcherEventHandler._has_content_changed: the answer and the cache after
_has_content_changed(file_hashes, path, content) ==
    LET new_hash == compute_file_hash(content) IN
    IF new_hash = NoHash
    THEN [changed |-> TRUE, file_hashes |-> file_hashes]
    ELSE [changed |-> \/ path \notin DOMAIN file_hashes
                      \/ file_hashes[path] # new_hash,
          file_hashes |-> Put(file_hashes, path, new_hash)]

\* the debounce check without regard to the path
DebouncedAnyPath(pending_events, path, current_time, debounce_ms) ==
    \E p \in DOMAIN pending_events :
        current_time - pending_events[p] < debounce_ms

\* lines 96-99: the path has an accepted event less than debounce_ms ago
Debounced(pending_events, path, current_time, debounce_ms) ==
    /\ path \in DOMAIN pending_events
    /\ current_time - pending_events[path] < debounce_ms

\* the timestamp set by every raw event that passes the patterns
OnAnyEventStampsEvery(h, event, current_time, content) ==
    LET path == event.src_path IN
    IF event.is_directory
    THEN [handler |-> h, outcome |-> "directory"]
    ELSE IF ~_should_process(h.watcher_config, path)
    THEN [handler |-> h, outcome |-> "filtered"]
    ELSE IF Debounced(h.pending_events, path, current_time, h.debounce_ms)
    THEN [handler |-> [h EXCEPT !.pending_events = Put(@, path, current_time)],
          outcome |-> "debounced"]
    ELSE LET accepted ==
                 [h EXCEPT !.pending_events = Put(@, path, current_time)]
             c == _has_content_changed(h.file_hashes, path, content)
         IN  IF h.use_hash_detection /\ event.event_type = "modified"
             THEN [handler |-> [accepted EXCEPT !.file_hashes = c.file_hashes],
                   outcome |-> IF ~c.changed THEN "unchanged"
                               ELSE IF h.event_loop THEN "delivered"
                               ELSE "no loop"]
             ELSE [handler |-> accepted,
                   outcome |-> IF h.event_loop THEN "delivered" ELSE "no loop"]

\* a handler that records the time of an event only once the hash check
\* has let it through
OnAnyEventStampsAfterHash(h, event, current_time, content) ==
    LET path == event.src_path IN
    IF event.is_directory
    THEN [handler |-> h, outcome |-> "directory"]
    ELSE IF ~_should_process(h.watcher_config, path)
    THEN [handler |-> h, outcome |-> "filtered"]
    ELSE IF Debounced(h.pending_events, path, current_time, h.debounce_ms)
    THEN [handler |-> h, outcome |-> "debounced"]
    ELSE LET accepted ==
                 [h EXCEPT !.pending_events = Put(@, path, current_time)]
             c == _has_content_changed(h.file_hashes, path, content)
         IN  IF h.use_hash_detection /\ event.event_type = "modified"
             THEN [handler |-> [(IF c.changed THEN accepted ELSE h)
                                   EXCEPT !.file_hashes = c.file_hashes],
                   outcome |-> IF ~c.changed THEN "unchanged"
                               ELSE IF h.event_loop THEN "delivered"
                               ELSE "no loop"]
             ELSE [handler |-> accepted,
                   outcome |-> IF h.event_loop THEN "delivered" ELSE "no loop"]

\* WatcherEventHandler.on_any_event: the handler after the event and what
\* became of the event
on_any_event(h, event, current_time, content) ==
    LET path == event.src_path IN
    IF event.is_directory
    THEN [handler |-> h, outcome |-> "directory"]
    ELSE IF ~_should_process(h.watcher_config, path)
    THEN [handler |-> h, outcome |-> "filtered"]
    ELSE IF Debounced(h.pending_events, path, current_time, h.debounce_ms)
    THEN [handler |-> h, outcome |-> "debounced"]
    ELSE LET accepted ==
                 [h EXCEPT !.pending_events = Put(@, path, current_time)]
             c == _has_content_changed(h.file_hashes, path, content)
         IN  IF h.use_hash_detection /\ event.event_type = "modified"
             THEN [handler |-> [accepted EXCEPT !.file_hashes = c.file_hashes],
                   outcome |-> IF ~c.changed THEN "unchanged"
                               ELSE IF h.event_loop THEN "delivered"
                               ELSE "no loop"]
             ELSE [handler |-> accepted,
                   outcome |-> IF h.event_loop THEN "delivered" ELSE "no loop"]

\* FileWatcher.add_watcher: a handler is made for the group; a watch is
\* scheduled for each of its paths that exists, a warning logged for each
\* that does not; nothing is raised
AddWatcher(watcher_config) ==
    /\ ~handler.created
    /\ handler' = [NoHandler EXCEPT !.created = TRUE,
                                    !.watcher_config = watcher_config,
                                    !.debounce_ms = watcher_config.debounce]
    /\ observer' = [observer EXCEPT
                        !.watches = { d \in Range(watcher_config.paths) :
                                          exists(fs, <<d>>) },
                        !.warnings = { d \in Range(watcher_config.paths) :
                                           ~exists(fs, <<d>>) }]
    /\ UNCHANGED <<clock, contents, w_log, execVars, engineVars, delayVars,
                   templateVars>>

\* engine.py lines 67-74: the loop is handed to the handlers, the observer
\* is started
WatcherStart ==
    /\ handler.created
    /\ ~observer.started
    /\ handler' = [handler EXCEPT !.event_loop = TRUE]
    /\ observer' = [observer EXCEPT !.started = TRUE]
    /\ UNCHANGED <<clock, contents, w_log, execVars, engineVars, delayVars,
                   templateVars>>

\* the observer's thread hands a raw event of a watched directory to the
\* handler
Dispatch(event) ==
    /\ observer.started
    /\ <<event.src_path[1]>> \in observer.watches
    /\ Len(w_log) < MaxEvents
    /\ LET r == on_any_event(handler, event, clock, contents[event.src_path])
       IN  /\ handler' = r.handler
           /\ w_log' = Append(w_log, [event |-> event, time |-> clock,
                                      outcome |-> r.outcome])
    /\ UNCHANGED <<clock, contents, observer, execVars, engineVars, delayVars,
                   templateVars>>

\* something writes the file, deletes it or makes it unreadable
FileWrite(path, content) ==
    /\ contents[path] # content
    /\ contents' = [contents EXCEPT ![path] = content]
    /\ UNCHANGED <<clock, observer, handler, w_log, execVars, engineVars,
                   delayVars, templateVars>>

\* time passes
Advance ==
    /\ clock + TimeStep <= MaxClock
    /\ clock' = clock + TimeStep
    /\ UNCHANGED <<contents, observer, handler, w_log, execVars, engineVars,
                   delayVars, templateVars>>

RawEvent(src_path, event_type, is_directory) ==
    [src_path |-> src_path, event_type |-> event_type,
     is_directory |-> is_directory]

RawEvents ==
    { RawEvent(SrcMainPy, "modified", FALSE),
      RawEvent(SrcMainPy, "created", FALSE),
      RawEvent(SrcMainPyc, "created", FALSE),
      RawEvent(DocsNotesMd, "modified", FALSE),
      RawEvent(<<"src", "/", "pkg">>, "created", TRUE) }

InitDetector ==
    /\ sys_platform = "linux"
    /\ fs \in SUBSET { << <<"src">> >>, << <<"docs">> >> }
    /\ executors = [e \in ExecIds |-> NoExecutor]
    /\ calls = [c \in CallIds |-> NoCall]
    /\ tasks = [c \in CallIds |-> <<>>]
    /\ harness = [Harness(<<>>, FALSE) EXCEPT !.active = FALSE]
    /\ EngineIdle
    /\ DelayIdle
    /\ TemplateIdle
    /\ clock = 0
    /\ contents = [p \in { e.src_path : e \in RawEvents } |-> "A"]
    /\ observer = NoObserver
    /\ handler = NoHandler
    /\ w_log = <<>>

NextDetector ==
    \/ \E watcher_config \in WatcherConfigs : AddWatcher(watcher_config)
    \/ WatcherStart
    \/ \E event \in RawEvents : Dispatch(event)
    \/ \E path \in {SrcMainPy}, content \in {"A", "B", "gone"} :
          FileWrite(path, content)
    \/ Advance

SpecDetector == InitDetector /\ [][NextDetector]_vars

(***************************************************************************)
(* Properties.                                                             *)
(***************************************************************************)
TaskIds == { <<c, i>> \in CallIds \X (1..(MaxCmds + 1)) : i <= Len(tasks[c]) }

\* the tasks inside their execution under executor e
Executing(e) ==
    { t \in TaskIds : /\ calls[t[1]].executor = e
                      /\ tasks[t[1]][t[2]].pc \in Holding }

Waiting == { t \in TaskIds : tasks[t[1]][t[2]].pc = "waiting" }

\* C1: with max_parallel = k, at every instant at most k commands of a call
\* are inside their execution (hold a slot: process being created, running,
\* being reaped, or in a back-off sleep).
C1_AtMostK ==
    Cardinality(Executing(0)) <= executors[0].max_parallel

\* a parallel group of m > k commands, k of them executing, one held back
C1_Witness ==
    /\ calls[1].state = "active"
    /\ calls[1].parallel
    /\ Len(calls[1].commands) > executors[0].max_parallel
    /\ Cardinality(Executing(0)) = executors[0].max_parallel
    /\ Waiting # {}

Done(c) == { i \in 1..Len(tasks[c]) : tasks[c][i].pc = "done" }

NamesMatch(c) ==
    /\ Len(calls[c].results) = Len(calls[c].commands)
    /\ \A i \in 1..Len(calls[c].commands) :
          calls[c].results[i].command_name = calls[c].commands[i].name

\* C3: a sequential call of N commands returns N results, result i bearing
\* the name of command i, and command i+1 is not started before command i
\* has given its result.
C3_Sequential ==
    \A c \in CallIds :
        (calls[c].state # "unused" /\ ~calls[c].parallel) =>
            /\ calls[c].state = "returned" => NamesMatch(c)
            /\ \A i \in 1..Len(tasks[c]) :
                  (i > 1 /\ tasks[c][i].pc # "idle") =>
                      /\ tasks[c][i - 1].pc = "done"
                      /\ Len(calls[c].results) >= i - 1
                      /\ calls[c].results[i - 1] = tasks[c][i - 1].result

C3_Witness ==
    /\ calls[1].state = "returned"
    /\ ~calls[1].parallel
    /\ Len(calls[1].commands) = MaxCmds
    /\ \E i \in 1..MaxCmds : calls[1].results[i].success
    /\ \E i \in 1..MaxCmds : ~calls[1].results[i].success

\* C4: a parallel call returns one result per command, in the declared order
\* of the commands, whatever the order of completion.
C4_ParallelOrder ==
    \A c \in CallIds :
        (calls[c].state = "returned" /\ calls[c].parallel) =>
            /\ NamesMatch(c)
            /\ \A i \in 1..Len(tasks[c]) :
                  calls[c].results[i] = tasks[c][i].result

\* returned, the last command having finished first
C4_Witness ==
    /\ calls[1].state = "returned"
    /\ calls[1].parallel
    /\ Len(calls[1].commands) = MaxCmds
    /\ calls[1].finished[1] = MaxCmds
    /\ NamesMatch(1)

AllNonZero(exits) == \A k \in 1..Len(exits) : exits[k] # 0

\* C5: a command with retries = r is spawned once per attempt, until an
\* attempt exits 0 or r + 1 attempts are made.  Exiting non-zero every time
\* it is spawned r + 1 times and fails with the exit code and streams of the
\* last attempt; succeeding first at attempt j (from 0) it is spawned j + 1
\* times and succeeds with exit code 0.
C5_Retries ==
    \A t \in TaskIds :
        LET task == tasks[t[1]][t[2]]
            r == calls[t[1]].commands[t[2]].retries
            res == task.result
        IN  /\ task.spawns <= r + 1
            /\ Len(task.exits) <= task.spawns
            /\ task.pc = "spawning" =>
                  /\ task.spawns = task.attempt
                  /\ Len(task.exits) = task.attempt
                  /\ AllNonZero(task.exits)
            /\ (task.pc = "done" /\ task.proc = "exited" /\ ~res.success) =>
                  /\ task.spawns = r + 1
                  /\ Len(task.exits) = r + 1
                  /\ AllNonZero(task.exits)
                  /\ res.return_code = task.exits[r + 1]
                  /\ res.stdout = StdoutOf(r)
                  /\ res.stderr = StderrOf(r)
                  /\ ~res.skipped
            /\ (task.pc = "done" /\ res.success /\ ~res.skipped) =>
                  LET j == task.attempt IN
                  /\ j <= r
                  /\ task.spawns = j + 1
                  /\ Len(task.exits) = j + 1
                  /\ task.exits[j + 1] = 0
                  /\ AllNonZero(SubSeq(task.exits, 1, j))
                  /\ res.return_code = 0
                  /\ res.stdout = StdoutOf(j)

\* retries = 2, three attempts that all exit non-zero, the last with code 2
C5_Witness ==
    /\ calls[1].state = "returned"
    /\ calls[1].commands[1].retries = 2
    /\ tasks[1][1].spawns = 3
    /\ tasks[1][1].exits = <<1, 1, 2>>
    /\ ~calls[1].results[1].success
    /\ calls[1].results[1].return_code = 2

TimedOut(command) ==
    <<"timed out after ", ToString(command.timeout), "s">>

\* C6: a timeout on any attempt ends the command at once, whatever retries
\* are left: the process is killed and reaped, no further attempt is made,
\* and the result is a Failure whose stderr contains "timed out after
\* <timeout>s".
C6_TimeoutTerminal ==
    \A t \in TaskIds :
        LET task == tasks[t[1]][t[2]]
            command == calls[t[1]].commands[t[2]]
        IN  /\ task.proc = "killed" => task.pc = "reaping"
            /\ task.pc = "reaping" => task.proc = "killed"
            /\ task.proc = "reaped" =>
                  /\ task.pc = "done"
                  /\ task.spawns = task.attempt + 1
                  /\ Len(task.exits) = task.attempt
                  /\ ~task.result.success
                  /\ ~task.result.skipped
                  /\ Contains(task.result.stderr, TimedOut(command))

\* the first of three attempts timed out and the command has returned
C6_Witness ==
    /\ calls[1].state = "returned"
    /\ calls[1].commands[1].retries = MaxRetries
    /\ calls[1].commands[1].timeout = SomeTimeout
    /\ tasks[1][1].proc = "reaped"
    /\ tasks[1][1].attempt = 0
    /\ tasks[1][1].spawns = 1
    /\ Contains(calls[1].results[1].stderr,
                <<"timed out after ", ToString(SomeTimeout), "s">>)

\* C7: the delay before the retry that follows failed attempt a is 1 second
\* under the fixed strategy and min(2^a, 60) seconds under the exponential
\* one: 1, 2, 4 for a = 0, 1, 2 and 60 from a = 6 on.
C7_Delay ==
    d_wait # 0 =>
        /\ d_strategy = FIXED => d_wait = 1
        /\ d_strategy = EXPONENTIAL =>
              /\ d_attempt <= 5 => d_wait = 2 ^ d_attempt
              /\ d_attempt >= 6 => d_wait = 60
              /\ d_attempt = 0 => d_wait = 1
              /\ d_attempt = 1 => d_wait = 2
              /\ d_attempt = 2 => d_wait = 4

C7_Witness ==
    d_strategy = EXPONENTIAL /\ d_attempt = 6 /\ d_wait = 60

\* execute_command goes past its skip evaluation for task i of call c
Entered(c, i) ==
    /\ IsTask(c, i)
    /\ tasks[c][i].pc = "waiting"
    /\ tasks'[c][i].pc # "waiting"

SkippedNow(c, i) == tasks'[c][i].pc = "done" /\ tasks'[c][i].result.skipped

\* the path named by skip_until_exists is not there
StillWaiting(command) ==
    /\ command.skip_until_exists # NoPath
    /\ \A q \in fs : q[1] # command.skip_until_exists

\* the project has neither the tests directory nor the test module
NoTestsHere == <<TestsDir>> \notin fs /\ <<PkgDir, TestCorePy>> \notin fs

WaitingFor(command) == <<"waiting for ">> \o command.skip_until_exists
NoTestsFound == <<"no test files or directories found">>

\* C8 as stated: with skip_until_exists = p, every invocation made while p
\* does not exist returns Skipped with a reason containing p, and an
\* invocation made once p exists returns a non-skipped result.
C8_AsStated ==
    [][\A c \in CallIds, i \in 1..MaxCmds :
          (Entered(c, i) /\ CommandOf(c, i).skip_until_exists # NoPath) =>
              IF StillWaiting(CommandOf(c, i))
              THEN /\ SkippedNow(c, i)
                   /\ Contains(tasks'[c][i].result.skip_reason,
                               CommandOf(c, i).skip_until_exists)
              ELSE ~SkippedNow(c, i)]_vars

\* C8: with skip_until_exists = p, every invocation made while p does not
\* exist returns Skipped with a reason containing p, whatever the earlier
\* invocations returned; an invocation made once p exists is not skipped on
\* account of p: it returns a non-skipped result unless the name contains
\* "test" and the project has no tests, and is then Skipped with the reason
\* "no test files or directories found".
C8_SkipUntilExists ==
    [][\A c \in CallIds, i \in 1..MaxCmds :
          (Entered(c, i) /\ CommandOf(c, i).skip_until_exists # NoPath) =>
              IF StillWaiting(CommandOf(c, i))
              THEN /\ SkippedNow(c, i)
                   /\ tasks'[c][i].result.success
                   /\ Contains(tasks'[c][i].result.skip_reason,
                               CommandOf(c, i).skip_until_exists)
              ELSE /\ SkippedNow(c, i) <=>
                         (CommandOf(c, i).name = NameRunTests /\ NoTestsHere)
                   /\ SkippedNow(c, i) =>
                         tasks'[c][i].result.skip_reason = NoTestsFound]_vars

\* the invocation before was skipped waiting for out.txt, this one ran
C8_Witness ==
    /\ harness.previous = <<WaitingFor([skip_until_exists |-> OutTxt])>>
    /\ calls[1].state = "returned"
    /\ calls[1].commands[1].skip_until_exists = OutTxt
    /\ ~calls[1].results[1].skipped
    /\ tasks[1][1].spawns = 1

C10_AsStated ==
    [][\A c \in CallIds, i \in 1..MaxCmds :
          (Entered(c, i) /\ CommandOf(c, i).name = NameRunTests) =>
              /\ (/\ SkippedNow(c, i)
                  /\ tasks'[c][i].result.skip_reason = NoTestsFound)
                     <=> NoTestsHere
              /\ ~NoTestsHere => ~SkippedNow(c, i)]_vars

\* C10: a command whose name contains "test" in any case, and whose
\* skip_until_exists is unset or names a path that exists, is Skipped with
\* the reason "no test files or directories found" exactly when the project
\* has no tests, and is not skipped once it has; while the path of
\* skip_until_exists is missing the command is Skipped waiting for it
\* instead, tests or no tests.
C10_TestHeuristic ==
    [][\A c \in CallIds, i \in 1..MaxCmds :
          (Entered(c, i) /\ CommandOf(c, i).name = NameRunTests) =>
              IF StillWaiting(CommandOf(c, i))
              THEN /\ SkippedNow(c, i)
                   /\ tasks'[c][i].result.skip_reason
                          = WaitingFor(CommandOf(c, i))
              ELSE /\ SkippedNow(c, i) <=> NoTestsHere
                   /\ SkippedNow(c, i) =>
                         tasks'[c][i].result.skip_reason = NoTestsFound
                   /\ ~NoTestsHere =>
                         tasks'[c][i].pc = "spawning"
                             \/ tasks'[c][i].validated]_vars

\* the invocation before was skipped for want of tests, this one ran
C10_Witness ==
    /\ harness.previous = <<NoTestsFound>>
    /\ calls[1].state = "returned"
    /\ calls[1].commands[1].name = NameRunTests
    /\ ~calls[1].results[1].skipped
    /\ tasks[1][1].spawns = 1
    /\ ~NoTestsHere

\* every task that is inside its execution, whichever executor it runs under
ExecutingAll == { t \in TaskIds : tasks[t[1]][t[2]].pc \in Holding }

\* C2: at every instant the commands executing, over all groups, triggers
\* and executors, are at most max_parallel_commands of the active
\* configuration, also when commands started before a hot-reload are still
\* in flight.
C2_ProcessWide ==
    engine.main # "absent" =>
        Cardinality(ExecutingAll)
            <= engine.config.global_config.max_parallel_commands

\* the first token of the substituted argv does not resolve, and validation
\* is on for this executor and platform
Unresolvable(c, i) ==
    /\ ExecutorOf(c).validate_commands
    /\ sys_platform # "win32"
    /\ ~validate_command(fs, substitute_list(CommandOf(c, i).cmd,
                                              calls[c].template_vars)).ok

\* C11: with existence validation on, a command whose first argv token does
\* not resolve returns a Failure with a descriptive stderr, no process being
\* spawned and no back-off sleep made, whatever its retries.
C11_InvalidFails ==
    [][\A c \in CallIds, i \in 1..MaxCmds :
          (Entered(c, i) /\ Unresolvable(c, i)) =>
              /\ tasks'[c][i].pc = "done"
              /\ ~tasks'[c][i].result.success
              /\ ~tasks'[c][i].result.skipped
              /\ Contains(lower(tasks'[c][i].result.stderr), <<"not found">>)
              /\ tasks'[c][i].spawns = 0
              /\ tasks'[c][i].wait_time = 0]_vars

\* C12: the executor never raises to its caller: every call of
\* execute_commands, whatever goes wrong in a command, ends by returning one
\* ExecutionResult for each command, and every execute_command by returning
\* one.
C12_NeverRaises ==
    \A c \in CallIds :
        /\ calls[c].state # "raised"
        /\ \A i \in 1..Len(tasks[c]) : tasks[c][i].pc # "raised"
        /\ calls[c].state = "returned" =>
               Len(calls[c].results) = Len(calls[c].commands)

\* a placeholder {{name}} stands at position i of the template
PlaceholderAt(t, i) ==
    /\ i >= 1
    /\ i + 2 <= Len(t)
    /\ t[i] = "{{"
    /\ IsWord(t[i + 1])
    /\ t[i + 2] = "}}"

\* C13: substitution replaces every {{name}} whose name is in the context by
\* its value and leaves every {{name}} whose name is absent, like any other
\* text, as it stands; substitute_list gives a list of the length and in the
\* order of the argv template.
C13_Substitution ==
    t_result.called =>
        /\ Len(t_result.value) = Len(t_templates)
        /\ \A k \in 1..Len(t_templates) :
              LET t == t_templates[k]
                  r == t_result.value[k]
              IN  /\ Len(t) <= 1 => r = t
                  /\ (Len(t) = 3 /\ PlaceholderAt(t, 1)) =>
                         r = IF t[2] \in DOMAIN t_variables
                             THEN t_variables[t[2]] ELSE t
                  /\ (\A i \in 1..Len(t) :
                          PlaceholderAt(t, i) => t[i + 1] \notin DOMAIN t_variables)
                         => r = t
                  /\ \A n \in 1..(Len(t) - 1) :
                         (~PlaceholderAt(t, n - 1) /\ ~PlaceholderAt(t, n)) =>
                             r = substitute(SubSeq(t, 1, n), t_variables)
                                 \o substitute(SubSeq(t, n + 1, Len(t)),
                                               t_variables)

\* a template with a name of the context and a name absent from it
C13_Witness ==
    /\ t_templates = << <<"{{", "path", "}}", "{{", "tool", "}}">> >>
    /\ DOMAIN t_variables = {"path"}
    /\ t_result.called
    /\ t_result.value = << t_variables["path"] \o <<"{{", "tool", "}}">> >>

\* events j and k of the log, j the earlier, are for the same file, pass the
\* pattern filter and lie less than the debounce window apart
SameBurst(j, k) ==
    /\ j < k
    /\ ~w_log[j].event.is_directory
    /\ ~w_log[k].event.is_directory
    /\ w_log[j].event.src_path = w_log[k].event.src_path
    /\ _should_process(handler.watcher_config, w_log[j].event.src_path)
    /\ w_log[k].time - w_log[j].time < handler.debounce_ms

\* event j opens a burst: no earlier event for its path lies within the window
OpensBurst(j) == \A i \in 1..Len(w_log) : ~SameBurst(i, j)

Notified(k) == w_log[k].outcome = "delivered"

\* an event for another path is never the reason of a discard
NotCollapsedAcrossPaths ==
    \A k \in 1..Len(w_log) :
        w_log[k].outcome = "debounced" =>
            \E j \in 1..Len(w_log) :
                SameBurst(j, k) /\ w_log[j].outcome \in {"delivered", "unchanged"}

\* C14 as stated: two events for the same path within the debounce window
\* give exactly one notification; events for different paths are not
\* collapsed.
C14_AsStated ==
    /\ \A j, k \in 1..Len(w_log) :
          (SameBurst(j, k) /\ OpensBurst(j)) =>
              (Notified(j) /\ ~Notified(k)) \/ (~Notified(j) /\ Notified(k))
    /\ NotCollapsedAcrossPaths

\* C14: of two events for the same path that pass the pattern filter and lie
\* within the debounce window, at most one is notified; the one that opens
\* the burst is notified unless it is a "modified" event dropped for its
\* unchanged content hash, the other is discarded; events for different paths
\* are not collapsed.
C14_Debounce ==
    /\ \A j, k \in 1..Len(w_log) :
          SameBurst(j, k) =>
              /\ ~(Notified(j) /\ Notified(k))
              /\ OpensBurst(j) =>
                     /\ ~Notified(k)
                     /\ w_log[k].outcome = "debounced"
                     /\ \/ Notified(j)
                        \/ /\ w_log[j].outcome = "unchanged"
                           /\ w_log[j].event.event_type = "modified"
    /\ NotCollapsedAcrossPaths

\* two events for one file within the window, the first notified, the second
\* discarded, and an event for another file within the same window notified
C14_Witness ==
    /\ Len(w_log) = 3
    /\ SameBurst(1, 2)
    /\ Notified(1)
    /\ w_log[2].outcome = "debounced"
    /\ w_log[3].event.src_path # w_log[1].event.src_path
    /\ w_log[3].time - w_log[1].time < handler.debounce_ms
    /\ Notified(3)

\* C15: a "modified" event outside the debounce window is delivered when its
\* path has no cached hash, and otherwise exactly when the hash of the file
\* differs from the cached one; the cache then holds the new hash; with an
\* identical hash the event is dropped.  Events of other kinds neither
\* consult nor update the cache.
C15_HashDedup ==
    [][Len(w_log') = Len(w_log) + 1 =>
          LET last == w_log'[Len(w_log')]
              path == last.event.src_path
              new_hash == compute_file_hash(contents[path])
              cache == handler.file_hashes
          IN  (/\ ~last.event.is_directory
               /\ _should_process(handler.watcher_config, path)
               /\ last.outcome # "debounced") =>
                  IF last.event.event_type = "modified"
                  THEN new_hash # NoHash =>
                          /\ path \notin DOMAIN cache => last.outcome = "delivered"
                          /\ path \in DOMAIN cache =>
                                 /\ cache[path] # new_hash =>
                                        last.outcome = "delivered"
                                 /\ cache[path] = new_hash =>
                                        last.outcome = "unchanged"
                          /\ handler'.file_hashes = Put(cache, path, new_hash)
                  ELSE /\ handler'.file_hashes = cache
                       /\ last.outcome = "delivered"]_vars

\* a file modified for the first time, modified with new content, and
\* touched: two notifications, the cache holding the hash of the new content
C15_Witness ==
    /\ Len(w_log) = 3
    /\ \A k \in 1..3 : /\ w_log[k].event.src_path = SrcMainPy
                        /\ w_log[k].event.event_type = "modified"
    /\ w_log[1].outcome = "delivered"
    /\ w_log[2].outcome = "delivered"
    /\ w_log[3].outcome = "unchanged"
    /\ handler.file_hashes[SrcMainPy] = "B"

\* a pattern of the list matches the file name
NameMatches(path, patterns) ==
    \E pattern \in Range(patterns) : fnmatch(PathName(path), pattern)

\* C16: an event is accepted by the pattern filter exactly when no ignore
\* pattern matches the file name or occurs in the path, and no include
\* patterns are declared or the file name matches one of them; ignore takes
\* precedence over include.
C16_PatternFilter ==
    \A k \in 1..Len(w_log) :
        LET path == w_log[k].event.src_path
            config == handler.watcher_config
            ignored ==
                \/ NameMatches(path, config.ignore_patterns)
                \/ \E pattern \in Range(config.ignore_patterns) :
                       Contains(path, pattern)
        IN  ~w_log[k].event.is_directory =>
                /\ w_log[k].outcome # "filtered" <=>
                       /\ ~ignored
                       /\ \/ config.patterns = NoPatterns
                          \/ NameMatches(path, config.patterns)
                /\ ignored => w_log[k].outcome = "filtered"

\* a file that an include pattern matches is discarded for an ignore pattern
\* found in its path, another file of the group is accepted
C16_Witness ==
    /\ Len(w_log) >= 2
    /\ w_log[1].event.src_path = DocsNotesMd
    /\ NameMatches(DocsNotesMd, handler.watcher_config.patterns)
    /\ ~NameMatches(DocsNotesMd, handler.watcher_config.ignore_patterns)
    /\ w_log[1].outcome = "filtered"
    /\ w_log[2].event.src_path = SrcMainPy
    /\ w_log[2].outcome = "delivered"

\* C17: registering a watch group attaches a watch for exactly those of its
\* paths that exist and skips each missing path with a warning; it fails
\* with a watch-path error if and only if none of the paths could be
\* attached.
C17_FailsIffNone ==
    handler.created =>
        LET paths == Range(handler.watcher_config.paths) IN
        /\ observer.watches = { d \in paths : exists(fs, <<d>>) }
        /\ observer.warnings = { d \in paths : ~exists(fs, <<d>>) }
        /\ observer.raised = "WatchPathNotFoundError" <=> observer.watches = {}

\* C18: start() takes effect only when the engine is Stopped: called while
\* the engine is Running it registers no watch group a second time, starts
\* no second loop and leaves the engine state unchanged.
C18_StartOnlyWhenStopped ==
    [][(engine.running /\ engine'.starts = engine.starts + 1) =>
          /\ watcher' = watcher
          /\ engine' = [engine EXCEPT !.starts = @ + 1]]_vars

\* the file watcher was halted once if stop() was ever called, else never
HaltedOnce ==
    /\ engine.stop_calls = 0 => watcher.stops = 0
    /\ engine.stop_calls >= 1 => watcher.stops = 1 /\ watcher.state = "stopped"

\* C19: stop() on a stopped engine is a no-op, raising nothing and changing
\* no state; of the stop requests of the signal handler, of fail-fast and of
\* the finally of start(), one halts the file watcher, the others do nothing.
C19_StopIdempotent ==
    [][/\ (~engine.running /\ engine'.stop_calls # engine.stop_calls) =>
              /\ watcher' = watcher
              /\ [engine' EXCEPT !.stop_calls = engine.stop_calls,
                                 !.main = engine.main,
                                 !.at_stop = engine.at_stop] = engine
       /\ HaltedOnce']_vars

\* a signal, a failed command under fail_fast and the finally of start()
\* each called stop(); the watcher was halted once
C19_Witness ==
    /\ engine.main = "returned"
    /\ engine.signals = 1
    /\ engine.config.global_config.fail_fast
    /\ engine.stop_calls = 3
    /\ watcher.stops = 1

\* C20: the results of a group that was executing when a stop was requested
\* are delivered to the sink before start() returns.
C20_InFlightDelivered ==
    engine.main = "returned" => engine.at_stop = {}

\* the groups handed to the loop or executing
PendingGroups ==
    Cardinality(InFlight)
    + Cardinality({ k \in 1..Len(loopq) : loopq[k].kind = "dispatch" })

\* C21: once stop() has begun, every change notification the loop comes to,
\* also one the watch thread had handed off before, is dropped: no file event
\* is given to the sink, no group is dispatched and no command is started
\* for it.
C21_NoDispatchAfterStop ==
    [][(~engine.running /\ engine.stop_calls >= 1) =>
          /\ \A k \in 1..Len(ui') : ui'[k].kind # "file_event"
          /\ PendingGroups' <= PendingGroups
          /\ (loopq # <<>> /\ Head(loopq).kind = "callback" /\ loopq' # loopq) =>
                 /\ loopq' = Tail(loopq)
                 /\ ui' = <<>>
                 /\ calls' = calls
                 /\ tasks' = tasks
                 /\ engine'.dropped = "stopped"]_vars

\* a notification handed off while the engine ran was handled after stop()
C21_Witness ==
    /\ ~engine.running
    /\ engine.stop_calls >= 1
    /\ engine.dropped = "stopped"
    /\ loopq = <<>>
    /\ InFlight = {}

\* C22: with fail_fast and a sequential group, once command i has ended in
\* Failure no command after i is executed.
C22_FailFastCutsGroup ==
    \A c \in CallIds :
        (/\ calls[c].owner = "engine"
         /\ calls[c].state = "active"
         /\ ~calls[c].parallel
         /\ engine.config.global_config.fail_fast) =>
            \A i, j \in 1..Len(tasks[c]) :
                (i < j /\ tasks[c][i].pc = "done"
                       /\ ~tasks[c][i].result.success) =>
                    /\ tasks[c][j].pc \in {"idle", "waiting"}
                    /\ tasks[c][j].spawns = 0

\* _execute_watcher_commands of group c gets its results and reports
ReportStep(c) ==
    /\ calls[c].owner = "engine"
    /\ calls[c].state = "active"
    /\ calls'[c].state # "active"

C24_FailedReloadKeeps ==
    [][/\ (\E k \in 1..Len(ui') : ui'[k].kind = "warning") =>
              /\ ~load_config(disk.content).ok
              /\ engine'.config = engine.config
              /\ engine'.executor = engine.executor
              /\ engine'.config_hash = engine.config_hash
              /\ engine'.running = engine.running
              /\ executors' = executors
       /\ (engine'.config # engine.config \/ engine'.executor # engine.executor) =>
              load_config(disk.content).ok
       /\ (engine.main = "sleeping" /\ engine'.main # "sleeping") =>
              ~engine.running]_vars

\* the file was edited into something that does not load; the loop warned
\* and the engine runs on with the configuration it had
C24_Witness ==
    /\ disk.content = "bad"
    /\ ui = << Notification("warning", <<"reload failed">>) >>
    /\ engine.running
    /\ engine.main = "sleeping"
    /\ engine.config = ConfigA
    /\ engine.executor = 0
    /\ engine.config_hash = "A"

\* the loop handles the notification at the head of its queue
HandlesCallback ==
    /\ loopq # <<>>
    /\ Head(loopq).kind = "callback"
    /\ loopq' # loopq
    /\ Len(loopq') <= Len(loopq)

\* _execute_watcher_commands starts for group c
DispatchStep(c) ==
    /\ calls[c].state # "active"
    /\ calls'[c].state = "active"
    /\ calls'[c].owner = "engine"

\* the executor the engine holds has the limit of its configuration
LimitOfConfig ==
    engine.main # "absent" =>
        executors[engine.executor].max_parallel
            = engine.config.global_config.max_parallel_commands

\* configuration, executor or fingerprint of the running engine is replaced
Swaps ==
    \/ engine'.config # engine.config
    \/ engine'.executor # engine.executor
    \/ engine.main = "sleeping" /\ engine'.config_hash # engine.config_hash

\* C25 as stated: a successful hot-reload swaps configuration, executor and
\* fingerprint in one step, the executor's limit being that of the new
\* configuration, and neither a dispatch nor a fail-fast check has the one
\* of before the swap together with the other of after it: the group a
\* dispatch runs is one of the configuration the engine has at that moment,
\* and the fail-fast check of a group is made with the executor the group
\* ran on still in place.
C25_AsStated ==
    [][/\ LimitOfConfig'
       /\ Swaps => /\ engine'.config = load_config(disk.content).config
                   /\ engine'.executor # engine.executor
                   /\ engine'.config_hash # engine.config_hash
       /\ \A c \in CallIds :
              /\ DispatchStep(c) =>
                     Head(loopq).watcher_config
                         = FindWatcher(engine.config,
                                       Head(loopq).watcher_config.name)
              /\ ReportStep(c) => calls[c].executor = engine.executor]_vars

\* C25: a successful hot-reload replaces configuration, executor and
\* fingerprint in one step of the loop: whenever one of them changes, the
\* three are then the loaded configuration, a new executor with the limit of
\* that configuration and the digest of the file, and at every instant the
\* engine's executor has the limit of the engine's configuration; a handler
\* of a change notification takes its group from the configuration of that
\* instant.  (A group handed off or executing when the swap happens keeps
\* the group definition or the executor it started with.)
C25_AtomicSwap ==
    [][/\ LimitOfConfig'
       /\ Swaps =>
              /\ load_config(disk.content).ok
              /\ engine'.config = load_config(disk.content).config
              /\ engine'.config_hash = compute_file_hash(disk.content)
              /\ engine'.config_hash # engine.config_hash
              /\ engine'.executor # engine.executor
              /\ ~executors[engine'.executor].created
              /\ executors'[engine'.executor] =
                     NewExecutor(engine'.config.global_config
                                     .max_parallel_commands, TRUE)
              /\ ui' = << Notification("info", <<"reloaded">>) >>
       /\ (HandlesCallback /\ loopq' # Tail(loopq)) =>
              loopq'[Len(loopq')].watcher_config
                  = FindWatcher(engine.config, Head(loopq).watcher_name)]_vars

\* the file was edited into ConfigB while a group of ConfigA was executing:
\* the engine holds ConfigB, a new executor of limit 1 and the new digest
C25_Witness ==
    /\ engine.config = ConfigB
    /\ engine.executor = 1
    /\ executors[1] = NewExecutor(1, TRUE)
    /\ engine.config_hash = "B"
    /\ ui = << Notification("info", <<"reloaded">>) >>
    /\ \E c \in InFlight : calls[c].executor = 0

\* C26: a change notification whose group name no group of the active
\* configuration has is dropped: nothing is given to the sink, no group is
\* dispatched, no command started, and the engine runs on.
C26_UnknownGroupDropped ==
    [][(/\ HandlesCallback
        /\ engine.running
        /\ \A k \in 1..Len(engine.config.watchers) :
               engine.config.watchers[k].name # Head(loopq).watcher_name) =>
           /\ loopq' = Tail(loopq)
           /\ ui' = <<>>
           /\ calls' = calls
           /\ tasks' = tasks
           /\ watcher' = watcher
           /\ engine' = [engine EXCEPT !.dropped = "watcher_not_found"]
           /\ engine'.running]_vars

\* after a reload to a configuration without the group docs, a notification
\* of the handler of docs, still registered, was dropped
C26_Witness ==
    /\ engine.dropped = "watcher_not_found"
    /\ engine.running
    /\ engine.config = ConfigB
    /\ \E k \in 1..Len(watcher.handlers) : watcher.handlers[k] = <<"docs">>
    /\ loopq = <<>>
    /\ InFlight = {}

\* C27: every result of a dispatched group that is a Failure or Skipped is
\* given to the sink when the group reports, also under fail_fast and when
\* the group has more than one such result.
C27_AllFailuresNotified ==
    [][\A c \in CallIds :
          ReportStep(c) =>
              \A k \in 1..Len(tasks[c]) :
                  (/\ tasks[c][k].pc = "done"
                   /\ ~tasks[c][k].result.success \/ tasks[c][k].result.skipped) =>
                      \E n \in 1..Len(ui') :
                          ui'[n] = ResultNote(tasks[c][k].result)]_vars

\* C28: dispatch is fire-and-forget.  The handling of a change notification
\* waits for no command: it can be done whenever the notification is at the
\* head of the loop's queue, whatever groups are executing, and it only
\* hands the group to the loop, starting and ending no command itself.
C28_FireAndForget ==
    [][/\ (loopq # <<>> /\ Head(loopq).kind = "callback") =>
              ENABLED HandleCallback
       /\ HandlesCallback =>
              /\ calls' = calls
              /\ tasks' = tasks
              /\ (engine.running /\ engine'.dropped = engine.dropped) =>
                     /\ Len(loopq') = Len(loopq)
                     /\ loopq'[Len(loopq')].kind = "dispatch"]_vars

\* two groups execute at once, each with a process running: the second
\* notification was handled and dispatched while the first group executed
C28_Witness ==
    /\ InFlight = {1, 2}
    /\ \E i \in 1..Len(tasks[1]) : tasks[1][i].pc = "running"
    /\ \E i \in 1..Len(tasks[2]) : tasks[2][i].pc = "running"
    /\ engine.running

Accepted(k) == w_log[k].outcome \in {"delivered", "unchanged", "no loop"}

\* the time of the last accepted event for the path, by the log
LastAccepted(path) ==
    LET ks == { k \in 1..Len(w_log) :
                    w_log[k].event.src_path = path /\ Accepted(k) }
    IN  w_log[CHOOSE k \in ks : \A j \in ks : j <= k].time

\* the debounce timestamps are those of the last accepted events
StampsAreLastAccepted ==
    /\ DOMAIN handler.pending_events =
           { w_log[k].event.src_path : k \in { j \in 1..Len(w_log) : Accepted(j) } }
    /\ \A path \in DOMAIN handler.pending_events :
           handler.pending_events[path] = LastAccepted(path)

\* C29: an event that passes the debounce check sets the timestamp of its
\* path to its time, whether or not the hash check then drops it; an event
\* discarded by debounce (or before it) leaves the timestamps as they are.
\* The window is so measured from the last accepted event of the path, not
\* from its last raw event.
C29_DebounceClock ==
    [][Len(w_log') = Len(w_log) + 1 =>
          LET last == w_log'[Len(w_log')]
              path == last.event.src_path
              stamps == handler.pending_events
          IN  /\ last.outcome \in {"delivered", "unchanged", "no loop"} =>
                     handler'.pending_events = Put(stamps, path, clock)
              /\ last.outcome \in {"debounced", "filtered", "directory"} =>
                     handler'.pending_events = stamps
              /\ last.outcome = "debounced" <=>
                     /\ ~last.event.is_directory
                     /\ _should_process(handler.watcher_config, path)
                     /\ path \in DOMAIN stamps
                     /\ clock - stamps[path] < handler.debounce_ms
              /\ StampsAreLastAccepted']_vars

\* three events for one file 50 ms apart, debounce 100: the first accepted,
\* the second discarded without moving the timestamp, the third, 100 ms
\* after the first and 50 ms after the second, accepted
C29_Witness ==
    /\ Len(w_log) = 3
    /\ handler.debounce_ms = 100
    /\ \A k \in 1..3 : /\ w_log[k].event.src_path = SrcMainPy
                        /\ w_log[k].time = (k - 1) * TimeStep
    /\ TimeStep < 100
    /\ w_log[1].outcome = "delivered"
    /\ w_log[2].outcome = "debounced"
    /\ w_log[3].outcome = "delivered"
    /\ handler.pending_events[SrcMainPy] = 2 * TimeStep

\* C30: a "modified" event for a file that cannot be read when it is hashed
\* is delivered as a change, and the cached hash of the path stays as it
\* was.
C30_UnreadableIsChange ==
    [][Len(w_log') = Len(w_log) + 1 =>
          LET last == w_log'[Len(w_log')]
              path == last.event.src_path
          IN  (/\ ~last.event.is_directory
               /\ _should_process(handler.watcher_config, path)
               /\ last.outcome # "debounced"
               /\ last.event.event_type = "modified"
               /\ compute_file_hash(contents[path]) = NoHash) =>
                  /\ last.outcome = "delivered"
                  /\ handler'.file_hashes = handler.file_hashes]_vars

\* a file was modified and its hash cached; it then became unreadable, and
\* the next "modified" event was delivered with the cache still holding the
\* old hash
C30_Witness ==
    /\ Len(w_log) = 2
    /\ \A k \in 1..2 : /\ w_log[k].event.src_path = SrcMainPy
                        /\ w_log[k].event.event_type = "modified"
                        /\ w_log[k].outcome = "delivered"
    /\ contents[SrcMainPy] = "gone"
    /\ SrcMainPy \in DOMAIN handler.file_hashes
    /\ handler.file_hashes[SrcMainPy] = "A"

\* C31: under fail_fast a Failure in a parallel group cancels no sibling:
\* the Failure itself leaves the engine and the other commands as they are,
\* every command keeps the result it has come to, and the group reports,
\* and the engine is stopped, only when each command has its result.
C31_SiblingsFinish ==
    [][\A c \in CallIds :
          (/\ calls[c].owner = "engine"
           /\ calls[c].state = "active"
           /\ calls[c].parallel
           /\ engine.config.global_config.fail_fast) =>
              IF ReportStep(c)
              THEN \A k \in 1..Len(tasks[c]) : tasks[c][k].pc = "done"
              ELSE /\ Len(tasks'[c]) = Len(tasks[c])
                   /\ \A k \in 1..Len(tasks[c]) :
                          /\ tasks[c][k].pc = "done" => tasks'[c][k] = tasks[c][k]
                          /\ (/\ tasks[c][k].pc # "done"
                              /\ tasks'[c][k].pc = "done"
                              /\ ~tasks'[c][k].result.success) =>
                                 /\ engine' = engine
                                 /\ watcher' = watcher
                                 /\ \A j \in 1..Len(tasks[c]) :
                                        j # k => tasks'[c][j] = tasks[c][j]]_vars

\* under fail_fast the first command of a parallel group has failed, its
\* sibling's process runs on and the engine is still running
C31_Witness ==
    /\ engine.config.global_config.fail_fast
    /\ engine.running
    /\ engine.stop_calls = 0
    /\ \E c \in InFlight :
          /\ calls[c].parallel
          /\ Len(tasks[c]) = 2
          /\ tasks[c][1].pc = "done"
          /\ ~tasks[c][1].result.success
          /\ tasks[c][2].pc = "running"

\* the tick of the engine's loop replaces the configuration
ReloadStep == ui' = << Notification("info", <<"reloaded">>) >>

Unhandled == { k \in 1..Len(loopq) : loopq[k].kind = "callback" }

\* the watch thread hands an event over
HandoffStep ==
    /\ Len(loopq') = Len(loopq) + 1
    /\ loopq'[Len(loopq')].kind = "callback"

\* C33: the watch thread never waits for the consumer: a surviving event
\* of a registered group can be handed over in every state of a started
\* watcher, however many earlier notifications wait in the loop's queue (up
\* to the length the queue is looked at) and whatever commands are in
\* progress, and the hand-off only appends to the queue: it changes no
\* call, no command and nothing of the engine.
C33_WatchThreadNeverWaits ==
    [][/\ (watcher.state = "started" /\ Len(loopq) < MaxPending) =>
              \A name \in Range(watcher.handlers) :
                  ENABLED Handoff(name, "modified", MaxPending)
       /\ HandoffStep =>
              /\ SubSeq(loopq', 1, Len(loopq)) = loopq
              /\ calls' = calls
              /\ tasks' = tasks
              /\ engine' = engine
              /\ executors' = executors]_vars

\* a third notification was handed over while two earlier ones were not
\* yet handled and a command of the group had its process running
C33_Witness ==
    /\ Len(loopq) = 3
    /\ Unhandled = {1, 2, 3}
    /\ \E c \in InFlight : \E k \in 1..Len(tasks[c]) :
          tasks[c][k].pc = "running"

\* C34: every way out of execute_command gives back the slot it took: the
\* free slots of an executor are its limit less the commands inside their
\* execution on it, so with no command executing they equal max_parallel.
C34_SlotsGivenBack ==
    \A e \in ExecIds :
        executors[e].created =>
            /\ executors[e].value
                   = executors[e].max_parallel - Cardinality(Executing(e))
            /\ Executing(e) = {} =>
                   executors[e].value = executors[e].max_parallel

\* a group of three has returned, its commands having left by the timeout,
\* the validation failure and the skip, and every slot is free again
C34_Witness ==
    /\ calls[1].state = "returned"
    /\ Len(calls[1].results) = 3
    /\ tasks[1][1].proc = "reaped"
    /\ Contains(calls[1].results[1].stderr, TimedOut(calls[1].commands[1]))
    /\ ~calls[1].results[2].success
    /\ tasks[1][2].spawns = 0
    /\ calls[1].results[3].skipped
    /\ Executing(0) = {}
    /\ executors[0].value = executors[0].max_parallel

\* the commands in a back-off sleep on executor e
Sleeping(e) ==
    { t \in Executing(e) : tasks[t[1]][t[2]].pc = "sleeping" }

\* C35: a command keeps its slot through its whole retry loop: a command
\* in a back-off sleep leaves the sleep only for its next attempt, and no
\* command enters its execution unless fewer than max_parallel commands,
\* the sleeping ones included, are inside theirs; with max_parallel
\* commands asleep every waiting command stays waiting.
C35_SlotKeptWhileSleeping ==
    [][\A c \in CallIds, i \in 1..MaxCmds :
          LET e == calls[c].executor IN
          /\ Entered(c, i) =>
                 Cardinality(Executing(e)) < executors[e].max_parallel
          /\ (IsTask(c, i) /\ tasks[c][i].pc = "sleeping") =>
                 /\ tasks'[c][i].pc \in {"sleeping", "spawning"}
                 /\ executors'[e].value <= executors[e].max_parallel - 1
          /\ (/\ IsTask(c, i)
              /\ tasks[c][i].pc = "waiting"
              /\ Cardinality(Sleeping(e)) = executors[e].max_parallel) =>
                 tasks'[c][i].pc = "waiting"]_vars

\* max_parallel commands of a parallel group are in their back-off sleep
\* after a failed first attempt and another command waits for a slot
C35_Witness ==
    /\ calls[1].state = "active"
    /\ calls[1].parallel
    /\ Cardinality(Sleeping(0)) = executors[0].max_parallel
    /\ executors[0].value = 0
    /\ \E t \in Waiting : t[1] = 1

\* C36: a "modified" event that passes debounce and is dropped for its
\* unchanged hash still sets the timestamp of its path, so an event for
\* that path less than the debounce window later is discarded whatever the
\* file then holds: it is neither hashed nor notified and leaves the
\* handler as it was, and between events nothing hashes or notifies.
C36_DroppedEventStartsWindow ==
    [][IF Len(w_log') = Len(w_log) + 1
       THEN LET last == w_log'[Len(w_log')]
                path == last.event.src_path
            IN  /\ last.outcome = "unchanged" =>
                       /\ last.event.event_type = "modified"
                       /\ handler'.pending_events[path] = clock
                /\ (/\ ~last.event.is_directory
                    /\ \E j \in 1..Len(w_log) :
                          /\ w_log[j].outcome = "unchanged"
                          /\ w_log[j].event.src_path = path
                          /\ (clock - w_log[j].time) < handler.debounce_ms) =>
                       /\ last.outcome = "debounced"
                       /\ handler' = handler
       ELSE w_log' = w_log /\ handler'.file_hashes = handler.file_hashes
                           /\ handler'.pending_events = handler.pending_events]_vars

\* debounce 100: a "modified" event at 0 is notified with content A, one at
\* 100 is dropped for its unchanged hash, the file is then written with B
\* and the "modified" event at 150 is discarded: the cache still holds the
\* hash of A
C36_Witness ==
    /\ Len(w_log) = 3
    /\ handler.debounce_ms = 100
    /\ \A k \in 1..3 : /\ w_log[k].event.src_path = SrcMainPy
                        /\ w_log[k].event.event_type = "modified"
    /\ w_log[1].outcome = "delivered"
    /\ w_log[2].outcome = "unchanged"
    /\ w_log[2].time = 100
    /\ w_log[3].outcome = "debounced"
    /\ w_log[3].time = 150
    /\ contents[SrcMainPy] = "B"
    /\ handler.file_hashes[SrcMainPy] = "A"
    /\ handler.pending_events[SrcMainPy] = 100

ReloadWarning == << Notification("warning", <<"reload failed">>) >>

\* the loop of start() is in its sleep with hot reload on, and the file has
\* a fingerprint other than the stored one and does not load
FailingSource ==
    /\ engine.enable_hot_reload
    /\ engine.main = "sleeping"
    /\ engine.config_hash # NoHash
    /\ compute_file_hash(disk.content) \notin {NoHash, engine.config_hash}
    /\ ~load_config(disk.content).ok

\* C37: a failed reload leaves the stored fingerprint as it was, so while
\* the file stays changed and does not load every tick of the loop attempts
\* the reload again and gives the warning again, leaving configuration,
\* executor and fingerprint alone; a tick gives the warning in no other
\* state, so the attempts end when the file loads (the fingerprint is then
\* the stored one) or its fingerprint is the stored one again.
C37_FailedReloadRetried ==
    [][/\ FailingSource =>
              /\ ENABLED (/\ Tick
                          /\ ui' = ReloadWarning
                          /\ engine'.config_hash = engine.config_hash
                          /\ engine'.config = engine.config
                          /\ engine'.executor = engine.executor)
              /\ ~ENABLED (Tick /\ ui' # ReloadWarning)
       /\ ~FailingSource => ~ENABLED (Tick /\ ui' = ReloadWarning)
       /\ ui' = ReloadWarning =>
              /\ FailingSource
              /\ disk' = disk
              /\ engine'.config_hash = engine.config_hash
              /\ engine'.main = "sleeping" => FailingSource'
       /\ ReloadStep =>
              /\ engine'.config_hash = compute_file_hash(disk.content)
              /\ ~FailingSource']_vars

\* the engine of ConfigB has just warned of a failed reload, the file is
\* still the one that does not load and the stored fingerprint still that
\* of ConfigB: the next tick attempts the reload again
C37_Witness ==
    /\ ui = ReloadWarning
    /\ FailingSource
    /\ engine.running
    /\ disk.content = "bad"
    /\ engine.config = ConfigB
    /\ engine.config_hash = "B"

\* C38: a reload registers nothing with the change detector: the groups
\* that notify are those of the configuration the engine was started with,
\* registered by start() and never changed afterwards.  A notification of a
\* group the active configuration no longer names is dropped, and a group
\* that only the active configuration names never notifies.
C38_NoReregistration ==
    [][/\ engine.main # "constructed" => watcher'.handlers = watcher.handlers
       /\ (engine.main = "constructed" /\ engine'.main # "constructed") =>
              watcher'.handlers = GroupNames(engine.config)
       /\ ReloadStep => watcher' = watcher
       /\ \A name \in {<<"py">>, <<"docs">>} :
              name \notin Range(watcher.handlers) =>
                  ~ENABLED Notify(name, "modified")
       /\ HandoffStep =>
              loopq'[Len(loopq')].watcher_name \in Range(watcher.handlers)
       /\ (/\ HandlesCallback
           /\ Head(loopq).watcher_name
                  \notin Range(GroupNames(engine.config))) =>
              /\ loopq' = Tail(loopq)
              /\ ui' = <<>>
              /\ calls' = calls]_vars

\* the engine was started with ConfigB, whose only group is py, and has
\* reloaded ConfigA, which adds docs: the watcher still has the one handler
C38_Witness ==
    /\ engine.config = ConfigA
    /\ engine.config_hash = "A"
    /\ engine.executor # 0
    /\ engine.running
    /\ watcher.state = "started"
    /\ watcher.handlers = << <<"py">> >>
    /\ <<"docs">> \in Range(GroupNames(engine.config))

\* C39: triggers of one group are not serialized: a dispatch at the head of
\* the loop's queue starts whenever a coroutine is left to look at,
\* whatever group is executing, and a command that waits can enter as soon
\* as its executor has a free slot, so commands of two triggers of one
\* sequential group run together, no more of them than the semaphore has
\* slots.
C39_TriggersNotSerialized ==
    /\ [](/\ (/\ loopq # <<>>
              /\ Head(loopq).kind = "dispatch"
              /\ \E c \in CallIds : calls[c].state # "active") =>
                 ENABLED (\E c \in CallIds : StartDispatch(c))
          /\ \A c \in InFlight, i \in 1..MaxCmds :
                 (/\ IsTask(c, i)
                  /\ tasks[c][i].pc = "waiting"
                  /\ ExecutorOf(c).value > 0
                  /\ \E d \in InFlight \ {c} :
                         calls[d].commands = calls[c].commands) =>
                     ENABLED PlainStep(c, i)
          /\ \A e \in ExecIds :
                 Cardinality(Executing(e)) <= executors[e].max_parallel)
    /\ [][\A c \in CallIds :
             DispatchStep(c) =>
                 /\ calls'[c].commands = Head(loopq).watcher_config.commands
                 /\ \A d \in CallIds \ {c} :
                        calls'[d] = calls[d] /\ tasks'[d] = tasks[d]]_vars

\* two triggers of the sequential group py are executing on the one
\* executor of limit 2, each with a process running
C39_Witness ==
    /\ InFlight = {1, 2}
    /\ calls[1].commands = calls[2].commands
    /\ calls[1].commands = ConfigA.watchers[1].commands
    /\ ~calls[1].parallel
    /\ calls[1].executor = calls[2].executor
    /\ executors[calls[1].executor].max_parallel = 2
    /\ executors[calls[1].executor].value = 0
    /\ \E i \in 1..Len(tasks[1]) : tasks[1][i].pc = "running"
    /\ \E i \in 1..Len(tasks[2]) : tasks[2][i].pc = "running"

\* C40: every execute_command call comes to a result: a command that waits
\* for its slot is eventually done, having been spawned at most
\* retries + 1 times and having slept at most retries times (each sleep is
\* followed by the attempt it counts, and a command asleep has an attempt
\* left).
C40_EveryCallReturns ==
    /\ \A c \in CallIds, i \in 1..MaxCmds :
           (i <= Len(tasks[c]) /\ tasks[c][i].pc = "waiting")
               ~> (i <= Len(tasks[c]) /\ tasks[c][i].pc = "done")
    /\ [](\A t \in TaskIds :
              LET task == tasks[t[1]][t[2]]
                  retries == calls[t[1]].commands[t[2]].retries
              IN  /\ task.spawns <= retries + 1
                  /\ task.attempt <= retries
                  /\ task.pc = "sleeping" => task.attempt < retries
                  /\ task.pc = "done" => task.result.command_name
                                           = calls[t[1]].commands[t[2]].name)

\* the command with one retry is done after two attempts and the one sleep
\* between them, with the Failure of its last attempt
C40_Witness ==
    \E i \in 1..Len(tasks[1]) :
        /\ calls[1].commands[i].retries = 1
        /\ tasks[1][i].pc = "done"
        /\ tasks[1][i].spawns = 2
        /\ tasks[1][i].attempt = 1
        /\ ~tasks[1][i].result.success
        /\ tasks[1][i].proc = "exited"

====
